---- MODULE Spec2Model ----
(***************************************************************************)
(* Model of the vrclog-go watch engine: the Watcher lifecycle (Watch /     *)
(* Close), its run goroutine (replay, tail loop, rotation), the Tailer     *)
(* read loop and the two output channels.                                  *)
(***************************************************************************)
EXTENDS Integers, Sequences, FiniteSets, TLC

(* ---------------------------------------------------------------------- *)
(* Bounds of the model                                                    *)
(* ---------------------------------------------------------------------- *)
MaxAppend == 1
MaxDelete == 1
MaxIOErr == 1
MaxDie == 1
MaxCancelCalls == 2
MaxSpawn == 2
MaxEmptyPolls == 2
MaxLines == 3
MaxFilterLen == 2
MaxParseLines == 2
MaxTime == 3

(* ---------------------------------------------------------------------- *)
(* Program constants                                                      *)
(* ---------------------------------------------------------------------- *)
watcherErrBuffer == 16
tailerErrBuffer == 16
DefaultMaxReplayLastN == 10000

Procs == {1, 2}
Files == {"A", "B"}

ReplayNone == "ReplayNone"
ReplayFromStart == "ReplayFromStart"
ReplayLastN == "ReplayLastN"
ReplaySinceTime == "ReplaySinceTime"

ErrWatcherClosed == "ErrWatcherClosed"
ErrAlreadyWatching == "ErrAlreadyWatching"

WatchOpFindLatest == "find_latest"
WatchOpTail == "tail"
WatchOpReplay == "replay"
WatchOpRotation == "rotation"
ParseErrorTag == "parse_error"
TailErrTag == "tail_io"

(* Kinds of log line the writer produces: a player_join at or after the   *)
(* Since time, a player_join before it, a player_left, a line no pattern  *)
(* matches, and a line the parser rejects.                                *)
LineKinds == {"join", "old", "left", "skip", "bad"}

(* parser.Parse: (event, nil) | (nil, nil) | (nil, error).                *)
Parse(k) ==
    CASE k = "join" -> [ev |-> TRUE, err |-> FALSE, type |-> "player_join", before |-> FALSE]
      [] k = "old" -> [ev |-> TRUE, err |-> FALSE, type |-> "player_join", before |-> TRUE]
      [] k = "left" -> [ev |-> TRUE, err |-> FALSE, type |-> "player_left", before |-> FALSE]
      [] k = "skip" -> [ev |-> FALSE, err |-> FALSE, type |-> "", before |-> FALSE]
      [] OTHER -> [ev |-> FALSE, err |-> TRUE, type |-> "", before |-> FALSE]

(* compiledFilter.Allows: a nil filter allows all; include, then exclude. *)
Allows_IncludeWins(inc, exc, t) ==
    IF inc = {} /\ exc = {} THEN TRUE
    ELSE IF inc # {} /\ t \in inc THEN TRUE
    ELSE IF inc # {} THEN FALSE
    ELSE IF exc # {} /\ t \in exc THEN FALSE
    ELSE TRUE

Allows(inc, exc, t) ==
    IF inc = {} /\ exc = {} THEN TRUE
    ELSE IF inc # {} /\ t \notin inc THEN FALSE
    ELSE IF exc # {} /\ t \in exc THEN FALSE
    ELSE TRUE

(* The errors run puts on errCh: a WatchError with its Op, a ParseError   *)
(* with the line it rejects, and an error of the tailer forwarded as is.  *)
WatchError(op) == [tag |-> op, file |-> "", line |-> 0]

ParseError(line) == [tag |-> ParseErrorTag, file |-> line[1], line |-> line[2]]

TailError == [tag |-> TailErrTag, file |-> "", line |-> 0]

Min(a, b) == IF a < b THEN a ELSE b

Range(s) == {s[i] : i \in 1..Len(s)}

Remove(s, x) == SelectSeq(s, LAMBDA y : y # x)

VARIABLES
    opts,            \* WatchOptions of the Watcher (fixed at construction)
    dir,             \* the log directory: existing files, oldest mtime first
    content,         \* file -> sequence of line kinds
    closed,          \* Watcher.closed
    watching,        \* Watcher.watching
    cancelSet,       \* Watcher.cancel # nil
    cancelCalls,     \* number of times w.cancel() was invoked
    doneCh,          \* Watcher.doneCh: "nil", "open" or "closed"
    parentCancelled, \* the context passed to Watch is cancelled
    pc,              \* per caller: "idle" or "closeWait" (inside Close, at <-doneCh)
    last,            \* the API call (Watch or Close) that returned last, and its result
    spawned,         \* number of run goroutines ever started
    chanPairs,       \* number of (eventCh, errCh) pairs ever created
    eventClosed,     \* eventCh is closed
    errClosed,       \* errCh is closed
    errCh,           \* buffered content of errCh
    rpc,             \* position of the run goroutine
    loc,             \* locals of run: logFile, currentFile, newFile, queue, pending, retTo
    tailers,         \* every Tailer created so far; the last one is run's t
    delivered,       \* events received by the consumer, in order
    hist,            \* history: the fatal condition that ended the run, how often
                     \* its error was accepted by errCh, the outcome of the read
                     \* of replayLastN and the length of the file it read, and
                     \* whether run has taken a ctx.Done case
    budget,          \* what the environment may still do in this scenario
    call             \* the frame of a library function called on its own: its
                     \* arguments, locals and result (none while the Watcher runs)

vars == <<opts, call, dir, content, closed, watching, cancelSet, cancelCalls, doneCh,
          parentCancelled, pc, last, spawned, chanPairs, eventClosed, errClosed,
          errCh, rpc, loc, tailers, delivered, hist, budget>>

watcherVars == <<closed, watching, cancelSet, cancelCalls, doneCh, spawned, chanPairs>>
chanVars == <<eventClosed, errClosed, errCh>>
runVars == <<rpc, loc, tailers>>
envVars == <<dir, content, parentCancelled, hist, budget>>
consumerVars == <<delivered>>

(* ctx.Done() of the context run works with: the child of the context     *)
(* passed to Watch, cancelled by the parent or by w.cancel().             *)
ctxDone == parentCancelled \/ cancelCalls > 0

(* A line in flight: the file, its index in the file, and the source that *)
(* read it (the index of the tailer, 0 for the replay).                    *)
NoLine == <<"", 0, 0>>

LocInit == [logFile |-> "", currentFile |-> "", newFile |-> "",
            queue |-> <<>>, pending |-> NoLine, retTo |-> ""]

NoCall == [fn |-> "none"]

HistInit == [fatal |-> "none", reported |-> 0, replay |-> "none", replayLen |-> 0,
             observed |-> FALSE]

NoBudget == [append |-> 0, kinds |-> {}, delete |-> 0, create |-> FALSE, ioErr |-> 0,
             die |-> 0, cancel |-> FALSE, callers |-> {}, errReader |-> TRUE,
             emptyPolls |-> 0, readErr |-> FALSE, openErr |-> FALSE]

(* The scenarios the model is run with: the options of the Watcher, the   *)
(* content of the log file A at construction, and what the environment    *)
(* (callers, context, writer, file system) does afterwards.               *)
Scenarios ==
    { \* two callers and the context, on a file read from its start
      [opts |-> [mode |-> ReplayFromStart, n |-> 0, inc |-> {}, exc |-> {"player_left"}],
       content |-> <<"join", "bad", "left", "join">>,
       budget |-> [NoBudget EXCEPT !.callers = Procs, !.cancel = TRUE]],
      \* two callers and the context, replay of the last two lines
      [opts |-> [mode |-> ReplayLastN, n |-> 2, inc |-> {}, exc |-> {}],
       content |-> <<"left", "skip", "join">>,
       budget |-> [NoBudget EXCEPT !.callers = Procs, !.cancel = TRUE]],
      \* rotation to a new file, with a writer
      [opts |-> [mode |-> ReplayNone, n |-> 0, inc |-> {}, exc |-> {}],
       content |-> <<"join">>,
       budget |-> [NoBudget EXCEPT !.callers = {1}, !.create = TRUE,
                                   !.append = MaxAppend, !.kinds = {"join"}]],
      \* files that disappear
      [opts |-> [mode |-> ReplaySinceTime, n |-> 0, inc |-> {"player_join"}, exc |-> {}],
       content |-> <<"old", "join", "join">>,
       budget |-> [NoBudget EXCEPT !.callers = {1}, !.create = TRUE, !.delete = MaxDelete,
                                   !.emptyPolls = MaxEmptyPolls]],
      \* read errors and the end of the underlying tail, with one line written
      [opts |-> [mode |-> ReplayLastN, n |-> 0, inc |-> {}, exc |-> {}],
       content |-> <<>>,
       budget |-> [NoBudget EXCEPT !.callers = {1}, !.cancel = TRUE, !.ioErr = MaxIOErr,
                                   !.die = MaxDie, !.append = 1,
                                   !.kinds = {"join"}]],
      \* replay of one malformed line more than errCh has slots, then an event,
      \* with a consumer that does not read the error channel
      [opts |-> [mode |-> ReplayLastN, n |-> watcherErrBuffer + 2, inc |-> {}, exc |-> {}],
       content |-> [i \in 1..(watcherErrBuffer + 2) |->
                       IF i <= watcherErrBuffer + 1 THEN "bad" ELSE "join"],
       budget |-> [NoBudget EXCEPT !.callers = {1}, !.delete = MaxDelete,
                                   !.errReader = FALSE, !.emptyPolls = MaxEmptyPolls]],
      \* rotation to a new file after a replay of the last two lines, with one
      \* line written
      [opts |-> [mode |-> ReplayLastN, n |-> 2, inc |-> {}, exc |-> {}],
       content |-> <<"skip", "left", "join">>,
       budget |-> [NoBudget EXCEPT !.callers = {1}, !.create = TRUE,
                                   !.append = 1, !.kinds = {"left"}]],
      \* a replay whose read of the file fails, with one line written and the
      \* context
      [opts |-> [mode |-> ReplayLastN, n |-> 2, inc |-> {}, exc |-> {}],
       content |-> <<"join", "join">>,
       budget |-> [NoBudget EXCEPT !.callers = {1}, !.cancel = TRUE, !.readErr = TRUE,
                                   !.append = 1, !.kinds = {"join"}]],
      \* lines from before and after the Since time, in the file at the start,
      \* written while tailing and written to the file of a rotation
      [opts |-> [mode |-> ReplaySinceTime, n |-> 0, inc |-> {}, exc |-> {"player_left"}],
       content |-> <<"old", "join">>,
       budget |-> [NoBudget EXCEPT !.callers = {1}, !.create = TRUE,
                                   !.append = 1, !.kinds = {"old", "join"}]],
      \* lines no pattern matches between two recognized lines, no filter
      [opts |-> [mode |-> ReplayFromStart, n |-> 0, inc |-> {}, exc |-> {}],
       content |-> <<"join", "skip", "skip", "left">>,
       budget |-> [NoBudget EXCEPT !.callers = {1}]],
      \* rotation to a new file that cannot be opened at the first attempt,
      \* after a replay of no line
      [opts |-> [mode |-> ReplayLastN, n |-> 0, inc |-> {}, exc |-> {}],
       content |-> <<"left">>,
       budget |-> [NoBudget EXCEPT !.callers = {1}, !.create = TRUE, !.openErr = TRUE,
                                   !.append = 1, !.kinds = {"join"}]] }

(* The Watcher as NewWatcher returns it, with no call made on it yet.     *)
WatcherInit ==
    /\ closed = FALSE
    /\ watching = FALSE
    /\ cancelSet = FALSE
    /\ cancelCalls = 0
    /\ doneCh = "nil"
    /\ parentCancelled = FALSE
    /\ pc = [p \in Procs |-> "idle"]
    /\ last = [op |-> "none", res |-> "none", seq |-> 0]
    /\ spawned = 0
    /\ chanPairs = 0
    /\ eventClosed = FALSE
    /\ errClosed = FALSE
    /\ errCh = <<>>
    /\ rpc = "none"
    /\ loc = LocInit
    /\ delivered = <<>>
    /\ hist = HistInit

Init ==
    /\ \E sc \in Scenarios :
          /\ opts = sc.opts
          /\ content = [f \in Files |-> IF f = "A" THEN sc.content ELSE <<>>]
          /\ budget = sc.budget
    /\ dir = <<"A">>
    /\ tailers = <<>>
    /\ WatcherInit
    /\ call = NoCall

(* The record of a call that returns now; seq is the parity of the number *)
(* of calls that have returned, so that every return changes `last`.      *)
Returned(op, res) == [op |-> op, res |-> res, seq |-> 1 - last.seq]

(* ---------------------------------------------------------------------- *)
(* Watcher.Watch                                                          *)
(* ---------------------------------------------------------------------- *)
WatchResult_NoWatchingCheck(c, w) ==
    IF c THEN ErrWatcherClosed ELSE "ok"

WatchResult_WatchingFirst(c, w) ==
    IF w THEN ErrAlreadyWatching
    ELSE IF c THEN ErrWatcherClosed
    ELSE "ok"

WatchResult_NoClosedCheck(c, w) ==
    IF w THEN ErrAlreadyWatching ELSE "ok"

WatchResult(c, w) ==
    IF c THEN ErrWatcherClosed
    ELSE IF w THEN ErrAlreadyWatching
    ELSE "ok"

Watch(p) ==
    /\ pc[p] = "idle"
    /\ p \in budget.callers
    /\ LET r == WatchResult(closed, watching) IN
       /\ last' = Returned("Watch", r)
       /\ IF r = "ok"
          THEN /\ watching' = TRUE
               /\ cancelSet' = TRUE
               /\ doneCh' = "open"
               /\ chanPairs' = Min(chanPairs + 1, MaxSpawn)
               /\ spawned' = Min(spawned + 1, MaxSpawn)
               /\ eventClosed' = FALSE
               /\ errClosed' = FALSE
               /\ errCh' = <<>>
               /\ rpc' = "start"
               /\ loc' = LocInit
               /\ UNCHANGED <<closed, cancelCalls, tailers>>
          ELSE UNCHANGED <<watcherVars, chanVars, runVars>>
    /\ UNCHANGED <<opts, call, pc, envVars, consumerVars>>

(* ---------------------------------------------------------------------- *)
(* Watcher.Close                                                          *)
(* ---------------------------------------------------------------------- *)
CloseIsNoop_Never(c) == FALSE

CloseIsNoop(c) == c

CloseMustWait(d) == d # "nil"

Close(p) ==
    /\ pc[p] = "idle"
    /\ p \in budget.callers
    /\ IF CloseIsNoop(closed)
       THEN /\ last' = Returned("Close", "nil")
            /\ UNCHANGED <<closed, cancelCalls, pc>>
       ELSE /\ closed' = TRUE
            /\ cancelCalls' = IF cancelSet THEN Min(cancelCalls + 1, MaxCancelCalls)
                              ELSE cancelCalls
            /\ IF CloseMustWait(doneCh)
               THEN /\ pc' = [pc EXCEPT ![p] = "closeWait"]
                    /\ UNCHANGED last
               ELSE /\ last' = Returned("Close", "nil")
                    /\ UNCHANGED pc
    /\ UNCHANGED <<opts, call, watching, cancelSet, doneCh, spawned, chanPairs,
                   chanVars, runVars, envVars, consumerVars>>

CloseWait(p) ==
    /\ pc[p] = "closeWait"
    /\ doneCh = "closed"
    /\ pc' = [pc EXCEPT ![p] = "idle"]
    /\ last' = Returned("Close", "nil")
    /\ UNCHANGED <<opts, call, watcherVars, chanVars, runVars, envVars, consumerVars>>

(* ---------------------------------------------------------------------- *)
(* sendError: select { errCh <- err | <-ctx.Done() | default }            *)
(* The result is the set of contents errCh can have afterwards: the send  *)
(* is possible when a slot is free, the ctx.Done case when the context is *)
(* cancelled, and default only when neither is ready.                     *)
(* ---------------------------------------------------------------------- *)
sendError_NoDefault(ch, e, done) ==
    (IF Len(ch) < watcherErrBuffer THEN {Append(ch, e)} ELSE {})
    \cup (IF done THEN {ch} ELSE {})

sendError(ch, e, done) ==
    (IF Len(ch) < watcherErrBuffer THEN {Append(ch, e)} ELSE {})
    \cup (IF done \/ Len(ch) >= watcherErrBuffer THEN {ch} ELSE {})

(* logfinder.FindLatestLogFile: the file with the latest modification     *)
(* time, or an error when the directory holds no log file.                *)
FindLatestLogFile(d) == IF d = <<>> THEN "" ELSE d[Len(d)]

(* readLastNLines seen at line granularity: the indices of the last n     *)
(* lines of file f, oldest first.                                         *)
LastNLines(f, n) ==
    LET len == Len(content[f]) IN
    [i \in 1..Min(n, len) |-> <<f, len - Min(n, len) + i, 0>>]

KindOf(line) == content[line[1]][line[2]]

(* The filters of processLine: parsed to an event, not before Since in    *)
(* ReplaySinceTime mode, and allowed by the type filter.                  *)
EventPasses_NoSince(k) ==
    LET r == Parse(k) IN
    /\ r.ev
    /\ Allows(opts.inc, opts.exc, r.type)

EventPasses(k) ==
    LET r == Parse(k) IN
    /\ r.ev
    /\ ~(opts.mode = ReplaySinceTime /\ r.before)
    /\ Allows(opts.inc, opts.exc, r.type)

(* Watcher.processLine on `line`, called from position `ret` with the     *)
(* caller's locals l.                                                     *)
processLine_ErrEndsRun(line, ret, l) ==
    IF Parse(KindOf(line)).err
    THEN /\ errCh' \in sendError(errCh, ParseError(line), ctxDone)
         /\ rpc' = "closeErr"
         /\ loc' = l
    ELSE IF EventPasses(KindOf(line))
    THEN /\ rpc' = "sendEvent"
         /\ loc' = [l EXCEPT !.pending = line, !.retTo = ret]
         /\ UNCHANGED errCh
    ELSE /\ rpc' = ret
         /\ loc' = l
         /\ UNCHANGED errCh

processLine_NoNilCheck(line, ret, l) ==
    IF Parse(KindOf(line)).err
    THEN /\ errCh' \in sendError(errCh, ParseError(line), ctxDone)
         /\ rpc' = ret
         /\ loc' = l
    ELSE IF EventPasses(KindOf(line)) \/ ~Parse(KindOf(line)).ev
    THEN /\ rpc' = "sendEvent"
         /\ loc' = [l EXCEPT !.pending = line, !.retTo = ret]
         /\ UNCHANGED errCh
    ELSE /\ rpc' = ret
         /\ loc' = l
         /\ UNCHANGED errCh

processLine(line, ret, l) ==
    IF Parse(KindOf(line)).err
    THEN /\ errCh' \in sendError(errCh, ParseError(line), ctxDone)
         /\ rpc' = ret
         /\ loc' = l
    ELSE IF EventPasses(KindOf(line))
    THEN /\ rpc' = "sendEvent"
         /\ loc' = [l EXCEPT !.pending = line, !.retTo = ret]
         /\ UNCHANGED errCh
    ELSE /\ rpc' = ret
         /\ loc' = l
         /\ UNCHANGED errCh

(* tailer.New: opens the file (MustExist) at its start or at its end. The *)
(* context of the tailer is a child of run's context: it is born          *)
(* cancelled when run's context is already cancelled.                     *)
NewTailer(f, fromStart) ==
    [file |-> f, from |-> IF fromStart THEN 0 ELSE Len(content[f]),
     off |-> IF fromStart THEN 0 ELSE Len(content[f]),
     tpc |-> "select", cur |-> 0, errors |-> <<>>, stopped |-> FALSE,
     cancelled |-> ctxDone]

(* cfg.FromStart of the first tailer.                                     *)
InitialFromStart_AlsoLastN(o) == o.mode # ReplayNone

InitialFromStart_OnlyFromStart(o) ==
    IF o.mode = ReplayLastN /\ o.n > 0 THEN FALSE
    ELSE o.mode = ReplayFromStart

InitialFromStart(o) ==
    IF o.mode = ReplayLastN /\ o.n > 0 THEN FALSE
    ELSE o.mode = ReplayFromStart \/ o.mode = ReplaySinceTime

t == Len(tailers)

unchangedByRunButHist == <<opts, call, closed, watching, cancelSet, cancelCalls, spawned,
                          chanPairs, pc, last, dir, content, parentCancelled, budget>>

unchangedByRun == <<unchangedByRunButHist, hist>>

unchangedByRunButOpen == <<opts, call, closed, watching, cancelSet, cancelCalls, spawned,
                           chanPairs, pc, last, dir, content, parentCancelled>>

(* ---------------------------------------------------------------------- *)
(* Watcher.run                                                            *)
(* ---------------------------------------------------------------------- *)
RunStart ==
    /\ rpc = "start"
    /\ LET f == FindLatestLogFile(dir) IN
       IF f = ""
       THEN /\ errCh' \in sendError(errCh, WatchError(WatchOpFindLatest), ctxDone)
            /\ rpc' = "closeErr"
            /\ hist' = [hist EXCEPT !.fatal = WatchOpFindLatest,
                                    !.reported = IF errCh' # errCh THEN 1 ELSE 0]
            /\ UNCHANGED loc
       ELSE /\ loc' = [loc EXCEPT !.logFile = f]
            /\ rpc' = IF opts.mode = ReplayLastN /\ opts.n > 0 THEN "replayRead"
                      ELSE "openTailer"
            /\ UNCHANGED <<errCh, hist>>
    /\ UNCHANGED <<unchangedByRunButHist, doneCh, eventClosed, errClosed, tailers, consumerVars>>

(* replayLastN: readLastNLines fails when the file cannot be opened, and  *)
(* when Stat or ReadAt fails on the open file.                            *)
ReplayReadFails == loc.logFile \notin Range(dir) \/ budget.readErr

RunReplayRead_ErrFatal ==
    /\ rpc = "replayRead"
    /\ IF ReplayReadFails
       THEN /\ errCh' \in sendError(errCh, WatchError(WatchOpReplay), ctxDone)
            /\ UNCHANGED loc
            /\ rpc' = "closeErr"
            /\ hist' = [hist EXCEPT !.replay = "failed"]
       ELSE /\ loc' = [loc EXCEPT !.queue = LastNLines(loc.logFile, opts.n)]
            /\ rpc' = "replay"
            /\ hist' = [hist EXCEPT !.replay = "read",
                                    !.replayLen = Len(content[loc.logFile])]
            /\ UNCHANGED errCh
    /\ UNCHANGED <<unchangedByRunButHist, doneCh, eventClosed, errClosed, tailers, consumerVars>>

RunReplayRead ==
    /\ rpc = "replayRead"
    /\ IF ReplayReadFails
       THEN /\ errCh' \in sendError(errCh, WatchError(WatchOpReplay), ctxDone)
            /\ UNCHANGED loc
            /\ rpc' = "openTailer"
            /\ hist' = [hist EXCEPT !.replay = "failed"]
       ELSE /\ loc' = [loc EXCEPT !.queue = LastNLines(loc.logFile, opts.n)]
            /\ rpc' = "replay"
            /\ hist' = [hist EXCEPT !.replay = "read",
                                    !.replayLen = Len(content[loc.logFile])]
            /\ UNCHANGED errCh
    /\ UNCHANGED <<unchangedByRunButHist, doneCh, eventClosed, errClosed, tailers, consumerVars>>

(* One iteration of the loop of replayLastN.                              *)
RunReplayNext ==
    /\ rpc = "replay"
    /\ IF loc.queue = <<>>
       THEN /\ rpc' = "openTailer"
            /\ UNCHANGED <<loc, errCh, hist>>
       ELSE IF ctxDone
       THEN /\ errCh' \in sendError(errCh, WatchError(WatchOpReplay), ctxDone)
            /\ loc' = [loc EXCEPT !.queue = <<>>]
            /\ rpc' = "openTailer"
            /\ hist' = [hist EXCEPT !.observed = TRUE]
       ELSE /\ processLine(Head(loc.queue), "replay", [loc EXCEPT !.queue = Tail(loc.queue)])
            /\ UNCHANGED hist
    /\ UNCHANGED <<unchangedByRunButHist, doneCh, eventClosed, errClosed, tailers,
                   consumerVars>>

(* The send of processLine completes: the consumer receives the event.    *)
RunSendEvent ==
    /\ rpc = "sendEvent"
    /\ delivered' = Append(delivered, loc.pending)
    /\ rpc' = loc.retTo
    /\ loc' = [loc EXCEPT !.pending = NoLine, !.retTo = ""]
    /\ UNCHANGED <<unchangedByRun, doneCh, chanVars, tailers>>

(* The send of processLine is aborted by ctx.Done().                      *)
RunSendAbort_NoCtxCase == FALSE /\ UNCHANGED vars

RunSendAbort_Unguarded ==
    /\ rpc = "sendEvent"
    /\ rpc' = loc.retTo
    /\ loc' = [loc EXCEPT !.pending = NoLine, !.retTo = ""]
    /\ hist' = [hist EXCEPT !.observed = TRUE]
    /\ UNCHANGED <<unchangedByRunButHist, doneCh, chanVars, tailers, consumerVars>>

RunSendAbort ==
    /\ rpc = "sendEvent"
    /\ ctxDone
    /\ rpc' = loc.retTo
    /\ loc' = [loc EXCEPT !.pending = NoLine, !.retTo = ""]
    /\ hist' = [hist EXCEPT !.observed = TRUE]
    /\ UNCHANGED <<unchangedByRunButHist, doneCh, chanVars, tailers, consumerVars>>

(* Whether tailer.New returns an error: it does when the file is not      *)
(* there (MustExist), and it may when the scenario has the tail library   *)
(* fail to open or watch a file.                                          *)
TailerNewFails(f) ==
    IF f \notin Range(dir) THEN {TRUE}
    ELSE IF budget.openErr THEN {TRUE, FALSE}
    ELSE {FALSE}

RunOpenTailer ==
    /\ rpc = "openTailer"
    /\ \E failed \in TailerNewFails(loc.logFile) :
       IF failed
       THEN /\ errCh' \in sendError(errCh, WatchError(WatchOpTail), ctxDone)
            /\ rpc' = "closeErr"
            /\ hist' = [hist EXCEPT !.fatal = WatchOpTail,
                                    !.reported = IF errCh' # errCh THEN 1 ELSE 0]
            /\ budget' = [budget EXCEPT !.openErr = FALSE]
            /\ UNCHANGED <<loc, tailers>>
       ELSE /\ tailers' = Append(tailers, NewTailer(loc.logFile, InitialFromStart(opts)))
            /\ loc' = [loc EXCEPT !.currentFile = loc.logFile]
            /\ rpc' = "select"
            /\ UNCHANGED <<errCh, hist, budget>>
    /\ UNCHANGED <<unchangedByRunButOpen, doneCh, eventClosed, errClosed, consumerVars>>

(* Tailer.Stop called by run: a stopped tailer returns at once, otherwise *)
(* the tailer is cancelled and run waits at `wait` for its loop to exit.  *)
StopTailer_NoWait(wait, after) ==
    /\ tailers' = [tailers EXCEPT ![t].stopped = TRUE, ![t].cancelled = TRUE]
    /\ rpc' = after

StopTailer(wait, after) ==
    IF tailers[t].stopped
    THEN /\ rpc' = after
         /\ UNCHANGED tailers
    ELSE /\ tailers' = [tailers EXCEPT ![t].stopped = TRUE, ![t].cancelled = TRUE]
         /\ rpc' = wait

(* select: case <-ctx.Done()                                              *)
RunCtxDone_ClosesErrCh ==
    /\ rpc = "select"
    /\ ctxDone
    /\ rpc' = "exitStop"
    /\ errClosed' = TRUE
    /\ hist' = [hist EXCEPT !.observed = TRUE]
    /\ UNCHANGED <<unchangedByRunButHist, doneCh, eventClosed, errCh, loc, tailers,
                   consumerVars>>

RunCtxDone ==
    /\ rpc = "select"
    /\ ctxDone
    /\ rpc' = "exitStop"
    /\ hist' = [hist EXCEPT !.observed = TRUE]
    /\ UNCHANGED <<unchangedByRunButHist, doneCh, chanVars, loc, tailers, consumerVars>>

(* select: case line, ok := <-t.Lines() with ok. t.lines is unbuffered:   *)
(* the receive needs the tailer blocked in its send, and a tailer whose   *)
(* context is cancelled leaves that send through its ctx.Done case.       *)
RunRecvLine ==
    /\ rpc = "select"
    /\ tailers[t].tpc = "sendLine"
    /\ ~tailers[t].cancelled
    /\ tailers' = [tailers EXCEPT ![t].tpc = "select", ![t].cur = 0]
    /\ processLine(<<tailers[t].file, tailers[t].cur, t>>, "select", loc)
    /\ UNCHANGED <<unchangedByRun, doneCh, eventClosed, errClosed, consumerVars>>

(* select: t.Lines() or t.Errors() is closed                              *)
RunStreamClosed_NoDefers ==
    /\ rpc = "select"
    /\ tailers[t].tpc = "done"
    /\ rpc' = "closeDone"
    /\ UNCHANGED <<unchangedByRun, doneCh, chanVars, loc, tailers, consumerVars>>

RunStreamClosed ==
    /\ rpc = "select"
    /\ tailers[t].tpc = "done"
    /\ rpc' = "exitStop"
    /\ UNCHANGED <<unchangedByRun, doneCh, chanVars, loc, tailers, consumerVars>>

(* select: case err, ok := <-t.Errors() with ok                           *)
RunRecvErr ==
    /\ rpc = "select"
    /\ tailers[t].errors # <<>>
    /\ tailers' = [tailers EXCEPT ![t].errors = Tail(tailers[t].errors)]
    /\ errCh' \in sendError(errCh, TailError, ctxDone)
    /\ UNCHANGED <<unchangedByRun, doneCh, eventClosed, errClosed, rpc, loc, consumerVars>>

(* select: case <-rotationTicker.C. The scenario bounds the number of     *)
(* ticks that fall while the directory holds no log file.                 *)
RunTick_FailStops ==
    /\ rpc = "select"
    /\ LET f == FindLatestLogFile(dir) IN
       IF f = ""
       THEN /\ budget.emptyPolls > 0
            /\ budget' = [budget EXCEPT !.emptyPolls = budget.emptyPolls - 1]
            /\ errCh' \in sendError(errCh, WatchError(WatchOpRotation), ctxDone)
            /\ loc' = [loc EXCEPT !.currentFile = ""]
            /\ StopTailer("rotWait", "rotOpen")
       ELSE IF f # loc.currentFile
       THEN /\ loc' = [loc EXCEPT !.newFile = f]
            /\ StopTailer("rotWait", "rotOpen")
            /\ UNCHANGED <<errCh, budget>>
       ELSE UNCHANGED <<errCh, rpc, loc, tailers, budget>>
    /\ UNCHANGED <<opts, call, closed, watching, cancelSet, cancelCalls, spawned, chanPairs,
                   pc, last, dir, content, parentCancelled, hist, doneCh, eventClosed,
                   errClosed, consumerVars>>

RunTick ==
    /\ rpc = "select"
    /\ LET f == FindLatestLogFile(dir) IN
       IF f = ""
       THEN /\ budget.emptyPolls > 0
            /\ budget' = [budget EXCEPT !.emptyPolls = budget.emptyPolls - 1]
            /\ errCh' \in sendError(errCh, WatchError(WatchOpRotation), ctxDone)
            /\ UNCHANGED <<rpc, loc, tailers>>
       ELSE IF f # loc.currentFile
       THEN /\ loc' = [loc EXCEPT !.newFile = f]
            /\ StopTailer("rotWait", "rotOpen")
            /\ UNCHANGED <<errCh, budget>>
       ELSE UNCHANGED <<errCh, rpc, loc, tailers, budget>>
    /\ UNCHANGED <<opts, call, closed, watching, cancelSet, cancelCalls, spawned, chanPairs,
                   pc, last, dir, content, parentCancelled, hist, doneCh, eventClosed,
                   errClosed, consumerVars>>

(* t.Stop() of the rotation returns: the old read loop has exited.        *)
RunRotWait ==
    /\ rpc = "rotWait"
    /\ tailers[t].tpc = "done"
    /\ rpc' = "rotOpen"
    /\ UNCHANGED <<unchangedByRun, doneCh, chanVars, loc, tailers, consumerVars>>

(* tailer.New on the new file, always from its start.                     *)
RunRotOpen_ReplayDirective ==
    /\ rpc = "rotOpen"
    /\ \E failed \in TailerNewFails(loc.newFile) :
       IF failed
       THEN /\ errCh' \in sendError(errCh, WatchError(WatchOpTail), ctxDone)
            /\ loc' = [loc EXCEPT !.newFile = ""]
            /\ budget' = [budget EXCEPT !.openErr = FALSE]
            /\ UNCHANGED tailers
       ELSE /\ tailers' = Append(tailers, NewTailer(loc.newFile, InitialFromStart(opts)))
            /\ loc' = [loc EXCEPT !.currentFile = loc.newFile, !.newFile = ""]
            /\ UNCHANGED <<errCh, budget>>
    /\ rpc' = "select"
    /\ UNCHANGED <<unchangedByRunButOpen, hist, doneCh, eventClosed, errClosed, consumerVars>>

RunRotOpen_FailSwitches ==
    /\ rpc = "rotOpen"
    /\ \E failed \in TailerNewFails(loc.newFile) :
       IF failed
       THEN /\ errCh' \in sendError(errCh, WatchError(WatchOpTail), ctxDone)
            /\ loc' = [loc EXCEPT !.currentFile = loc.newFile, !.newFile = ""]
            /\ budget' = [budget EXCEPT !.openErr = FALSE]
            /\ UNCHANGED tailers
       ELSE /\ tailers' = Append(tailers, NewTailer(loc.newFile, TRUE))
            /\ loc' = [loc EXCEPT !.currentFile = loc.newFile, !.newFile = ""]
            /\ UNCHANGED <<errCh, budget>>
    /\ rpc' = "select"
    /\ UNCHANGED <<unchangedByRunButOpen, hist, doneCh, eventClosed, errClosed, consumerVars>>

RunRotOpen ==
    /\ rpc = "rotOpen"
    /\ \E failed \in TailerNewFails(loc.newFile) :
       IF failed
       THEN /\ errCh' \in sendError(errCh, WatchError(WatchOpTail), ctxDone)
            /\ loc' = [loc EXCEPT !.newFile = ""]
            /\ budget' = [budget EXCEPT !.openErr = FALSE]
            /\ UNCHANGED tailers
       ELSE /\ tailers' = Append(tailers, NewTailer(loc.newFile, TRUE))
            /\ loc' = [loc EXCEPT !.currentFile = loc.newFile, !.newFile = ""]
            /\ UNCHANGED <<errCh, budget>>
    /\ rpc' = "select"
    /\ UNCHANGED <<unchangedByRunButOpen, hist, doneCh, eventClosed, errClosed, consumerVars>>

(* The deferred calls of run, in order: t.Stop(), close(errCh),           *)
(* close(eventCh), close(w.doneCh).                                       *)
RunExitStop ==
    /\ rpc = "exitStop"
    /\ StopTailer("exitWait", "closeErr")
    /\ UNCHANGED <<unchangedByRun, doneCh, chanVars, loc, consumerVars>>

RunExitWait_DoneFirst ==
    /\ rpc = "exitWait"
    /\ tailers[t].tpc = "done"
    /\ rpc' = "closeDone"
    /\ UNCHANGED <<unchangedByRun, doneCh, chanVars, loc, tailers, consumerVars>>

RunExitWait ==
    /\ rpc = "exitWait"
    /\ tailers[t].tpc = "done"
    /\ rpc' = "closeErr"
    /\ UNCHANGED <<unchangedByRun, doneCh, chanVars, loc, tailers, consumerVars>>

RunCloseErr ==
    /\ rpc = "closeErr"
    /\ errClosed' = TRUE
    /\ rpc' = "closeEvent"
    /\ UNCHANGED <<unchangedByRun, doneCh, eventClosed, errCh, loc, tailers, consumerVars>>

RunCloseEvent ==
    /\ rpc = "closeEvent"
    /\ eventClosed' = TRUE
    /\ rpc' = "closeDone"
    /\ UNCHANGED <<unchangedByRun, doneCh, errClosed, errCh, loc, tailers, consumerVars>>

RunCloseDone ==
    /\ rpc = "closeDone"
    /\ doneCh' = "closed"
    /\ rpc' = "done"
    /\ UNCHANGED <<unchangedByRun, chanVars, loc, tailers, consumerVars>>

(* ---------------------------------------------------------------------- *)
(* Tailer.run, for the tailer at index i                                  *)
(* ---------------------------------------------------------------------- *)
(* t.ctx.Done(): the tailer's own context, cancelled by Tailer.Stop or    *)
(* through run's context.                                                 *)
tailerCtxDone(i) == tailers[i].cancelled

unchangedByTailer == <<opts, call, watcherVars, pc, last, chanVars, rpc, loc, consumerVars,
                       dir, content, parentCancelled, hist>>

(* The cancellation of run's context reaches the context of the tailer.   *)
(* context.WithCancel closes the Done channel of the cancelled context    *)
(* first and those of its children afterwards, so run can see its own     *)
(* context cancelled while the tailer does not yet.                       *)
CtxPropagate(i) ==
    /\ ctxDone
    /\ ~tailers[i].cancelled
    /\ tailers' = [tailers EXCEPT ![i].cancelled = TRUE]
    /\ UNCHANGED <<unchangedByTailer, budget>>

(* select: case <-t.ctx.Done(); the deferred closes end the streams.      *)
TailerCtxDone(i) ==
    /\ tailers[i].tpc = "select"
    /\ tailerCtxDone(i)
    /\ tailers' = [tailers EXCEPT ![i].tpc = "done"]
    /\ UNCHANGED <<unchangedByTailer, budget>>

(* select: case line := <-t.t.Lines, a line of text read from the file.   *)
TailerReadLine_NoAdvance(i) ==
    /\ tailers[i].tpc = "select"
    /\ tailers[i].file \in Range(dir)
    /\ tailers[i].off < Len(content[tailers[i].file])
    /\ tailers' = [tailers EXCEPT ![i].tpc = "sendLine",
                                  ![i].cur = tailers[i].off + 1]
    /\ UNCHANGED <<unchangedByTailer, budget>>

TailerReadLine(i) ==
    /\ tailers[i].tpc = "select"
    /\ tailers[i].file \in Range(dir)
    /\ tailers[i].off < Len(content[tailers[i].file])
    /\ tailers' = [tailers EXCEPT ![i].tpc = "sendLine",
                                  ![i].off = tailers[i].off + 1,
                                  ![i].cur = tailers[i].off + 1]
    /\ UNCHANGED <<unchangedByTailer, budget>>

(* select: case line := <-t.t.Lines with line.Err set: the error is sent  *)
(* without blocking, and the ctx.Done case of that send ends the loop.    *)
TailerReadErr_NoCapacity(i) ==
    /\ tailers[i].tpc = "select"
    /\ budget.ioErr > 0
    /\ budget' = [budget EXCEPT !.ioErr = budget.ioErr - 1]
    /\ \/ tailers' = [tailers EXCEPT ![i].errors = Append(tailers[i].errors, TailErrTag)]
       \/ /\ tailerCtxDone(i)
          /\ tailers' = [tailers EXCEPT ![i].tpc = "done"]
    /\ UNCHANGED unchangedByTailer

TailerReadErr(i) ==
    /\ tailers[i].tpc = "select"
    /\ budget.ioErr > 0
    /\ budget' = [budget EXCEPT !.ioErr = budget.ioErr - 1]
    /\ \/ /\ Len(tailers[i].errors) < tailerErrBuffer
          /\ tailers' = [tailers EXCEPT ![i].errors = Append(tailers[i].errors, TailErrTag)]
       \/ /\ tailerCtxDone(i)
          /\ tailers' = [tailers EXCEPT ![i].tpc = "done"]
       \/ /\ Len(tailers[i].errors) >= tailerErrBuffer
          /\ ~tailerCtxDone(i)
          /\ UNCHANGED tailers
    /\ UNCHANGED unchangedByTailer

(* select: t.t.Lines is closed (the underlying tail has ended).           *)
TailerLibClosed(i) ==
    /\ tailers[i].tpc = "select"
    /\ budget.die > 0
    /\ budget' = [budget EXCEPT !.die = budget.die - 1]
    /\ tailers' = [tailers EXCEPT ![i].tpc = "done"]
    /\ UNCHANGED unchangedByTailer

(* The send t.lines <- line.Text is aborted by t.ctx.Done().              *)
TailerSendAbort_NoCtxCase(i) == FALSE /\ UNCHANGED vars

TailerSendAbort(i) ==
    /\ tailers[i].tpc = "sendLine"
    /\ tailerCtxDone(i)
    /\ tailers' = [tailers EXCEPT ![i].tpc = "done", ![i].cur = 0]
    /\ UNCHANGED <<unchangedByTailer, budget>>

(* ---------------------------------------------------------------------- *)
(* The consumer of the error channel (the event receive is RunSendEvent)  *)
(* ---------------------------------------------------------------------- *)
RecvError ==
    /\ budget.errReader
    /\ errCh # <<>>
    /\ errCh' = Tail(errCh)
    /\ UNCHANGED <<opts, call, watcherVars, pc, last, eventClosed, errClosed, runVars,
                   envVars, delivered>>

(* ---------------------------------------------------------------------- *)
(* The environment: the caller's context and the writer of the log files  *)
(* ---------------------------------------------------------------------- *)
unchangedByEnv == <<opts, call, watcherVars, pc, last, chanVars, runVars, consumerVars>>

CancelCtx ==
    /\ budget.cancel
    /\ ~parentCancelled
    /\ parentCancelled' = TRUE
    /\ UNCHANGED <<unchangedByEnv, dir, content, hist, budget>>

(* A write to f also makes f the file with the latest modification time.  *)
AppendLine(f, k) ==
    /\ f \in Range(dir)
    /\ budget.append > 0
    /\ k \in budget.kinds
    /\ content' = [content EXCEPT ![f] = Append(content[f], k)]
    /\ dir' = Append(Remove(dir, f), f)
    /\ budget' = [budget EXCEPT !.append = budget.append - 1]
    /\ UNCHANGED <<unchangedByEnv, parentCancelled, hist>>

CreateFile(f) ==
    /\ f = "B"
    /\ budget.create
    /\ dir' = Append(dir, f)
    /\ budget' = [budget EXCEPT !.create = FALSE]
    /\ UNCHANGED <<unchangedByEnv, content, parentCancelled, hist>>

DeleteFile(f) ==
    /\ f \in Range(dir)
    /\ budget.delete > 0
    /\ dir' = Remove(dir, f)
    /\ budget' = [budget EXCEPT !.delete = budget.delete - 1]
    /\ UNCHANGED <<unchangedByEnv, content, parentCancelled, hist>>

Next ==
    \/ \E p \in Procs : Watch(p)
    \/ \E p \in Procs : Close(p)
    \/ \E p \in Procs : CloseWait(p)
    \/ RunStart
    \/ RunReplayRead
    \/ RunReplayNext
    \/ RunSendEvent
    \/ RunSendAbort
    \/ RunOpenTailer
    \/ RunCtxDone
    \/ RunRecvLine
    \/ RunStreamClosed
    \/ RunRecvErr
    \/ RunTick
    \/ RunRotWait
    \/ RunRotOpen
    \/ RunExitStop
    \/ RunExitWait
    \/ RunCloseErr
    \/ RunCloseEvent
    \/ RunCloseDone
    \/ \E i \in 1..Len(tailers) : CtxPropagate(i)
    \/ \E i \in 1..Len(tailers) : TailerCtxDone(i)
    \/ \E i \in 1..Len(tailers) : TailerReadLine(i)
    \/ \E i \in 1..Len(tailers) : TailerReadErr(i)
    \/ \E i \in 1..Len(tailers) : TailerLibClosed(i)
    \/ \E i \in 1..Len(tailers) : TailerSendAbort(i)
    \/ RecvError
    \/ CancelCtx
    \/ \E f \in Files, k \in LineKinds : AppendLine(f, k)
    \/ \E f \in Files : CreateFile(f)
    \/ \E f \in Files : DeleteFile(f)

Spec == Init /\ [][Next]_vars

(* ---------------------------------------------------------------------- *)
(* Scheduling: a goroutine that can take a step eventually takes it, and  *)
(* a select whose case is ready again and again eventually chooses it     *)
(* (the Go runtime picks among the ready cases at random). Nothing is     *)
(* assumed of the consumer, the callers of Watch and Close, the writer of *)
(* the files or the ticker.                                               *)
(* ---------------------------------------------------------------------- *)
RunStep ==
    \/ RunStart \/ RunReplayRead \/ RunReplayNext \/ RunOpenTailer
    \/ RunRotWait \/ RunRotOpen \/ RunExitStop \/ RunExitWait
    \/ RunCloseErr \/ RunCloseEvent \/ RunCloseDone

Fairness ==
    /\ WF_vars(RunStep)
    /\ WF_vars(RunSendAbort)
    /\ SF_vars(RunCtxDone)
    /\ SF_vars(RunStreamClosed)
    /\ WF_vars(\E i \in 1..Len(tailers) : CtxPropagate(i))
    /\ WF_vars(\E i \in 1..Len(tailers) : TailerCtxDone(i))
    /\ WF_vars(\E i \in 1..Len(tailers) : TailerSendAbort(i))
    /\ \A p \in Procs : WF_vars(CloseWait(p))

FairSpec == Spec /\ Fairness

(* Delivery: in addition, the consumer receives an event that run offers, *)
(* the tail library hands over a line that is in the file, and the select *)
(* of run eventually chooses a line that stays ready.                     *)
DeliveryFairness ==
    /\ WF_vars(RunSendEvent)
    /\ SF_vars(RunRecvLine)
    /\ WF_vars(\E i \in 1..Len(tailers) : TailerReadLine(i))

DeliverySpec == FairSpec /\ DeliveryFairness

(* ---------------------------------------------------------------------- *)
(* readLastNLines and extractLines, on the bytes of a file                *)
(* ---------------------------------------------------------------------- *)
chunkSize == 4096

CR == "\r"
LF == "\n"

(* A line of k bytes of text.                                             *)
LongLine(k) == [i \in 1..k |-> "x"]

(* The lines the writer of a log file writes: an empty line, a short      *)
(* line, a short line ending in CR (CRLF once terminated) and a line one  *)
(* byte shorter than a chunk.                                             *)
LineTexts == {<<>>, <<"a">>, <<"b", CR>>, LongLine(chunkSize - 1)}

(* The bytes of a file made of the lines ls, each terminated by LF, the   *)
(* last one only when finalLF.                                            *)
RECURSIVE FileBytes(_, _)
FileBytes(ls, finalLF) ==
    IF ls = <<>> THEN <<>>
    ELSE IF Len(ls) = 1 THEN (IF finalLF THEN Head(ls) \o <<LF>> ELSE Head(ls))
    ELSE Head(ls) \o <<LF>> \o FileBytes(Tail(ls), finalLF)

(* Remove trailing \r for CRLF.                                           *)
StripCR(line) ==
    IF Len(line) > 0 /\ line[Len(line)] = CR THEN SubSeq(line, 1, Len(line) - 1) ELSE line

(* The last n elements of a slice: lines[len(lines)-n:].                  *)
KeepLast(lines, n) ==
    IF Len(lines) > n THEN SubSeq(lines, Len(lines) - n + 1, Len(lines)) ELSE lines

(* extractLines: the loop over the bytes of the buffer cuts it at every   *)
(* LF; the segment from `start` to an LF, and the one after the last LF,  *)
(* is appended without its trailing CR unless it is then empty. The       *)
(* segments are given here by the positions of the LFs, in order.         *)
extractLines_NoTail(buffer, n) ==
    LET ends == {i \in 1..Len(buffer) : buffer[i] = LF}
        nth(k) == CHOOSE i \in ends : Cardinality({j \in ends : j <= i}) = k
        start(i) == IF \E j \in ends : j < i
                    THEN 1 + CHOOSE j \in ends : j < i /\ \A h \in ends : h < i => h <= j
                    ELSE 1
        segs == [k \in 1..Cardinality(ends) |->
                    StripCR(SubSeq(buffer, start(nth(k)), nth(k) - 1))]
        lines == SelectSeq(segs, LAMBDA l : l # <<>>)
    IN KeepLast(lines, n)

extractLines(buffer, n) ==
    LET nls == {i \in 1..Len(buffer) : buffer[i] = LF}
        ends == nls \cup (IF Len(buffer) \notin nls /\ Len(buffer) > 0
                          THEN {Len(buffer) + 1} ELSE {})
        nth(k) == CHOOSE i \in ends : Cardinality({j \in ends : j <= i}) = k
        start(i) == IF \E j \in nls : j < i
                    THEN 1 + CHOOSE j \in nls : j < i /\ \A h \in nls : h < i => h <= j
                    ELSE 1
        segs == [k \in 1..Cardinality(ends) |->
                    StripCR(SubSeq(buffer, start(nth(k)), nth(k) - 1))]
        lines == SelectSeq(segs, LAMBDA l : l # <<>>)
    IN KeepLast(lines, n)

(* The frame of a call readLastNLines(filepath, n) on a file holding the  *)
(* lines `src`: the bytes of the file, the locals and the result.         *)
ReadCall(src, finalLF, n) ==
    [fn |-> "readLastNLines", src |-> src, file |-> FileBytes(src, finalLF), n |-> n,
     pc |-> "stat", fileSize |-> 0, offset |-> 0, readSize |-> 0,
     buffer |-> <<>>, lines |-> <<>>, ret |-> <<>>, err |-> FALSE]

LineLists == UNION {[1..k -> LineTexts] : k \in 0..MaxLines}

ReadInit ==
    /\ \E src \in LineLists, finalLF \in BOOLEAN, n \in 0..(MaxLines + 1) :
          call = ReadCall(src, finalLF, n)
    /\ opts = [mode |-> ReplayLastN, n |-> call.n, inc |-> {}, exc |-> {}]
    /\ content = [f \in Files |-> <<>>]
    /\ budget = NoBudget
    /\ dir = <<"A">>
    /\ tailers = <<>>
    /\ WatcherInit

unchangedByCall == <<opts, dir, content, watcherVars, parentCancelled, pc, last, chanVars,
                     runVars, consumerVars, hist, budget>>

(* os.Open, file.Stat and the test of an empty file.                      *)
ReadStat ==
    /\ call.fn = "readLastNLines" /\ call.pc = "stat"
    /\ call' = IF Len(call.file) = 0
               THEN [call EXCEPT !.pc = "return"]
               ELSE [call EXCEPT !.pc = "loop", !.fileSize = Len(call.file),
                                 !.offset = Len(call.file)]
    /\ UNCHANGED unchangedByCall

(* One iteration of the backward scan.                                    *)
ReadChunk_WholeChunks ==
    /\ call.fn = "readLastNLines" /\ call.pc = "loop"
    /\ Len(call.lines) < call.n /\ call.offset > 0
    /\ LET readSize == chunkSize
           offset == call.offset - readSize
           chunk == SubSeq(call.file, (IF offset < 0 THEN 0 ELSE offset) + 1,
                           offset + readSize)
           buffer == chunk \o call.buffer
       IN call' = [call EXCEPT !.readSize = readSize, !.offset = offset,
                               !.buffer = buffer,
                               !.lines = extractLines(buffer, call.n)]
    /\ UNCHANGED unchangedByCall

ReadChunk ==
    /\ call.fn = "readLastNLines" /\ call.pc = "loop"
    /\ Len(call.lines) < call.n /\ call.offset > 0
    /\ LET readSize == Min(chunkSize, call.offset)
           offset == call.offset - readSize
           chunk == SubSeq(call.file, offset + 1, offset + readSize)
           buffer == chunk \o call.buffer
       IN call' = [call EXCEPT !.readSize = readSize, !.offset = offset,
                               !.buffer = buffer,
                               !.lines = extractLines(buffer, call.n)]
    /\ UNCHANGED unchangedByCall

(* The end of the scan and the return.                                    *)
ReadReturn ==
    /\ call.fn = "readLastNLines" /\ call.pc = "loop"
    /\ ~(Len(call.lines) < call.n /\ call.offset > 0)
    /\ LET lines == IF call.offset = 0 /\ Len(call.lines) < call.n
                    THEN extractLines(call.buffer, call.n)
                    ELSE call.lines
       IN call' = [call EXCEPT !.pc = "return", !.lines = lines, !.ret = lines]
    /\ UNCHANGED unchangedByCall

ReadNext == ReadStat \/ ReadChunk \/ ReadReturn

ReadSpec == ReadInit /\ [][ReadNext]_vars

(* ---------------------------------------------------------------------- *)
(* newCompiledFilter and compiledFilter.Allows                            *)
(* ---------------------------------------------------------------------- *)
EventTypes == {"player_join", "player_left", "world_join"}

(* The include and exclude slices given to newCompiledFilter.             *)
TypeSlices == UNION {[1..k -> EventTypes] : k \in 0..MaxFilterLen}

(* newCompiledFilter: nil when both slices are empty, otherwise the two   *)
(* maps, each left nil (empty) when its slice is empty.                   *)
newCompiledFilter(include, exclude) ==
    IF Len(include) = 0 /\ Len(exclude) = 0
    THEN [nil |-> TRUE, include |-> {}, exclude |-> {}]
    ELSE [nil |-> FALSE, include |-> Range(include), exclude |-> Range(exclude)]

(* The frame of a call newCompiledFilter(include, exclude).Allows(t).     *)
FilterCall(include, exclude, ty) ==
    [fn |-> "Allows", include |-> include, exclude |-> exclude, t |-> ty,
     pc |-> "new", filter |-> newCompiledFilter(<<>>, <<>>), ret |-> FALSE]

FilterInit ==
    /\ \E include \in TypeSlices, exclude \in TypeSlices, ty \in EventTypes :
          call = FilterCall(include, exclude, ty)
    /\ opts = [mode |-> ReplayNone, n |-> 0, inc |-> Range(call.include),
               exc |-> Range(call.exclude)]
    /\ content = [f \in Files |-> <<>>]
    /\ budget = NoBudget
    /\ dir = <<"A">>
    /\ tailers = <<>>
    /\ WatcherInit

FilterCompile ==
    /\ call.fn = "Allows" /\ call.pc = "new"
    /\ call' = [call EXCEPT !.pc = "allows",
                            !.filter = newCompiledFilter(call.include, call.exclude)]
    /\ UNCHANGED unchangedByCall

FilterAllows ==
    /\ call.fn = "Allows" /\ call.pc = "allows"
    /\ call' = [call EXCEPT !.pc = "return",
                            !.ret = Allows(call.filter.include, call.filter.exclude, call.t)]
    /\ UNCHANGED unchangedByCall

FilterNext == FilterCompile \/ FilterAllows

FilterSpec == FilterInit /\ [][FilterNext]_vars

(* ---------------------------------------------------------------------- *)
(* WatchOptions.Validate, NewWatcher and the function Watch               *)
(* ---------------------------------------------------------------------- *)
ErrLogDirNotFound == "ErrLogDirNotFound"

(* The values the options are tried with: around zero and around the two  *)
(* ceilings (a configured MaxReplayLines of 5 and the default of 10000);  *)
(* PollInterval in seconds.                                               *)
ModeValues == {ReplayNone, ReplayFromStart, ReplayLastN, ReplaySinceTime}
MaxReplayLinesValues == {-1, 0, 5}
LastNValues == {-1, 0, 1, 5, 6, DefaultMaxReplayLastN, DefaultMaxReplayLastN + 1}
PollIntervalValues == {-1, 0, 1}

(* The zero value of WatchOptions (Since is the zero time).               *)
ZeroOptions == [Mode |-> ReplayNone, LastN |-> 0, SinceIsZero |-> TRUE,
                MaxReplayLines |-> 0, PollInterval |-> 0]

WatchOptionsValues ==
    [Mode : ModeValues, LastN : LastNValues, SinceIsZero : BOOLEAN,
     MaxReplayLines : MaxReplayLinesValues, PollInterval : PollIntervalValues]

(* WatchOptions.Validate: the error it returns, "nil" for none.           *)
Validate_NoPollCheck(o) ==
    LET maxLines == IF o.MaxReplayLines = 0 THEN DefaultMaxReplayLastN
                    ELSE o.MaxReplayLines
    IN IF o.Mode = ReplayLastN /\ o.LastN < 0
       THEN "replay LastN must be non-negative"
       ELSE IF o.Mode = ReplayLastN /\ maxLines > 0 /\ o.LastN > maxLines
       THEN "replay LastN exceeds maximum"
       ELSE IF o.Mode = ReplaySinceTime /\ o.SinceIsZero
       THEN "replay Since must be set"
       ELSE "nil"

Validate_NoDefaultCeiling(o) ==
    LET maxLines == o.MaxReplayLines
    IN IF o.Mode = ReplayLastN /\ o.LastN < 0
       THEN "replay LastN must be non-negative"
       ELSE IF o.Mode = ReplayLastN /\ maxLines > 0 /\ o.LastN > maxLines
       THEN "replay LastN exceeds maximum"
       ELSE IF o.Mode = ReplaySinceTime /\ o.SinceIsZero
       THEN "replay Since must be set"
       ELSE IF o.PollInterval < 0
       THEN "poll interval must be non-negative"
       ELSE "nil"

Validate(o) ==
    LET maxLines == IF o.MaxReplayLines = 0 THEN DefaultMaxReplayLastN
                    ELSE o.MaxReplayLines
    IN IF o.Mode = ReplayLastN /\ o.LastN < 0
       THEN "replay LastN must be non-negative"
       ELSE IF o.Mode = ReplayLastN /\ maxLines > 0 /\ o.LastN > maxLines
       THEN "replay LastN exceeds maximum"
       ELSE IF o.Mode = ReplaySinceTime /\ o.SinceIsZero
       THEN "replay Since must be set"
       ELSE IF o.PollInterval < 0
       THEN "poll interval must be non-negative"
       ELSE "nil"

(* The interval run gives its rotation ticker, in seconds.                *)
DefaultPollInterval == 2

pollInterval(o) == IF o.PollInterval <= 0 THEN DefaultPollInterval ELSE o.PollInterval

(* The frame of a call Watch(ctx, opts) of the package: NewWatcher(opts)  *)
(* and, when it returns a Watcher, w.Watch(ctx).                          *)
NewWatcherCall(o, logDirFound) ==
    [fn |-> "NewWatcher", opts |-> o, logDirFound |-> logDirFound,
     pc |-> "validate", w |-> FALSE, err |-> "nil"]

NewWatcherInit ==
    /\ \E o \in WatchOptionsValues, found \in BOOLEAN : call = NewWatcherCall(o, found)
    /\ opts = [mode |-> call.opts.Mode, n |-> call.opts.LastN, inc |-> {}, exc |-> {}]
    /\ content = [f \in Files |-> <<>>]
    /\ budget = [NoBudget EXCEPT !.callers = {1}]
    /\ dir = <<"A">>
    /\ tailers = <<>>
    /\ WatcherInit

(* opts.Validate() in NewWatcher.                                         *)
NewWatcherValidate ==
    /\ call.fn = "NewWatcher" /\ call.pc = "validate"
    /\ LET err == Validate(call.opts) IN
       call' = IF err # "nil"
               THEN [call EXCEPT !.pc = "return", !.err = err]
               ELSE [call EXCEPT !.pc = "findLogDir"]
    /\ UNCHANGED unchangedByCall

(* logfinder.FindLogDir and the construction of the Watcher.              *)
NewWatcherFindLogDir ==
    /\ call.fn = "NewWatcher" /\ call.pc = "findLogDir"
    /\ call' = IF call.logDirFound
               THEN [call EXCEPT !.pc = "return", !.w = TRUE]
               ELSE [call EXCEPT !.pc = "return", !.err = ErrLogDirNotFound]
    /\ UNCHANGED unchangedByCall

(* Watch(ctx, opts) goes on to w.Watch(ctx) when NewWatcher returned no   *)
(* error.                                                                 *)
NewWatcherWatch(p) ==
    /\ call.fn = "NewWatcher" /\ call.pc = "return"
    /\ call.err = "nil"
    /\ ~watching
    /\ Watch(p)

NewWatcherNext ==
    \/ NewWatcherValidate
    \/ NewWatcherFindLogDir
    \/ \E p \in Procs : NewWatcherWatch(p)

NewWatcherSpec == NewWatcherInit /\ [][NewWatcherNext]_vars

(* ---------------------------------------------------------------------- *)
(* A Tailer on its own: tailer.New on a file, callers of Tailer.Stop and  *)
(* a consumer of its two streams                                          *)
(* ---------------------------------------------------------------------- *)
TailerInit ==
    /\ opts = [mode |-> ReplayFromStart, n |-> 0, inc |-> {}, exc |-> {}]
    /\ content = [f \in Files |-> IF f = "A" THEN <<"join", "left">> ELSE <<>>]
    /\ \E r \in BOOLEAN :
          budget = [NoBudget EXCEPT !.callers = Procs, !.cancel = TRUE,
                                    !.ioErr = tailerErrBuffer + MaxIOErr,
                                    !.die = MaxDie, !.errReader = r]
    /\ dir = <<"A">>
    /\ WatcherInit
    /\ tailers = <<NewTailer("A", TRUE)>>
    /\ call = NoCall

unchangedByStop == <<opts, call, watcherVars, chanVars, rpc, loc, consumerVars, envVars>>

(* Tailer.Stop up to <-t.doneCh: a call that finds t.stopped set returns  *)
(* nil at once; the first call sets it, cancels the context of the tailer *)
(* and waits for doneCh.                                                  *)
TailerStop(p) ==
    /\ pc[p] = "idle"
    /\ p \in budget.callers
    /\ IF tailers[1].stopped
       THEN /\ last' = Returned("Stop", "nil")
            /\ UNCHANGED <<pc, tailers>>
       ELSE /\ tailers' = [tailers EXCEPT ![1].stopped = TRUE, ![1].cancelled = TRUE]
            /\ pc' = [pc EXCEPT ![p] = "stopWait"]
            /\ UNCHANGED last
    /\ UNCHANGED unchangedByStop

(* <-t.doneCh returns once run has closed it; Stop returns t.t.Stop().    *)
TailerStopWait(p) ==
    /\ pc[p] = "stopWait"
    /\ tailers[1].tpc = "done"
    /\ pc' = [pc EXCEPT ![p] = "idle"]
    /\ last' = Returned("Stop", "nil")
    /\ UNCHANGED <<unchangedByStop, tailers>>

(* The consumer receives the line the tailer offers on t.Lines().         *)
TailerLinesRecv ==
    /\ tailers[1].tpc = "sendLine"
    /\ ~tailers[1].cancelled
    /\ delivered' = Append(delivered, <<tailers[1].file, tailers[1].cur, 1>>)
    /\ tailers' = [tailers EXCEPT ![1].tpc = "select", ![1].cur = 0]
    /\ UNCHANGED <<opts, call, watcherVars, pc, last, chanVars, rpc, loc, envVars>>

(* The consumer receives an error from t.Errors().                        *)
TailerErrorsRecv ==
    /\ budget.errReader
    /\ tailers[1].errors # <<>>
    /\ tailers' = [tailers EXCEPT ![1].errors = Tail(tailers[1].errors)]
    /\ UNCHANGED <<opts, call, watcherVars, pc, last, chanVars, rpc, loc, envVars,
                   consumerVars>>

TailerNext ==
    \/ \E p \in Procs : TailerStop(p)
    \/ \E p \in Procs : TailerStopWait(p)
    \/ CtxPropagate(1)
    \/ TailerCtxDone(1)
    \/ TailerReadLine(1)
    \/ TailerReadErr(1)
    \/ TailerLibClosed(1)
    \/ TailerSendAbort(1)
    \/ TailerLinesRecv
    \/ TailerErrorsRecv
    \/ CancelCtx

TailerSpec == TailerInit /\ [][TailerNext]_vars

(* Scheduling: the tail library hands over a line that is in the file,    *)
(* the loop of the tailer takes the steps it can take and the consumer    *)
(* receives a line that is offered. Nothing is assumed of the consumer of *)
(* the error stream.                                                      *)
TailerFairness ==
    /\ WF_vars(TailerReadLine(1))
    /\ WF_vars(TailerLinesRecv)
    /\ WF_vars(TailerCtxDone(1))
    /\ WF_vars(TailerSendAbort(1))

TailerFairSpec == TailerSpec /\ TailerFairness

(* ---------------------------------------------------------------------- *)
(* ParseFile with its time range options                                  *)
(* ---------------------------------------------------------------------- *)
(* time.Time values: 0 is the zero Time, the others are instants in       *)
(* order.                                                                 *)
ZeroTime == 0
Times == 1..MaxTime

(* The lines of a parsed file by what parser.Parse returns for them: an   *)
(* event with its timestamp, (nil, nil) or an error.                      *)
ParsedLines == {<<"event", ts>> : ts \in Times} \cup {<<"skip", ZeroTime>>, <<"bad", ZeroTime>>}

ParsedFiles == UNION {[1..k -> ParsedLines] : k \in 0..MaxParseLines}

(* t.Before(u) and t.After(u)                                             *)
Before(a, b) == a < b

After(a, b) == a > b

(* The frame of the iterator ParseFile(ctx, path, WithParseTimeRange(     *)
(* since, until), WithParseStopOnError(stopOnError)) being ranged over:   *)
(* the lines of the file, the number of lines scanned, the indices of the *)
(* lines whose events were yielded, and how the iteration ended.          *)
ParseFileCall(src, since, until, stopOnError, openErr) ==
    [fn |-> "ParseFile", src |-> src, since |-> since, until |-> until,
     stopOnError |-> stopOnError, openErr |-> openErr, cancelled |-> FALSE,
     pc |-> "open", pos |-> 0, yielded |-> <<>>, ret |-> ""]

ParseFileInit ==
    /\ \E src \in ParsedFiles, since \in {ZeroTime} \cup Times,
          until \in {ZeroTime} \cup Times, stopOnError \in BOOLEAN, openErr \in BOOLEAN :
          call = ParseFileCall(src, since, until, stopOnError, openErr)
    /\ opts = ZeroOptions
    /\ content = [f \in Files |-> <<>>]
    /\ budget = NoBudget
    /\ dir = <<"A">>
    /\ tailers = <<>>
    /\ WatcherInit

(* The lazy os.Open of the first iteration.                               *)
ParseFileOpen ==
    /\ call.fn = "ParseFile" /\ call.pc = "open"
    /\ call' = IF call.openErr
               THEN [call EXCEPT !.pc = "return", !.ret = "error"]
               ELSE [call EXCEPT !.pc = "scan"]
    /\ UNCHANGED unchangedByCall

(* One iteration of `for scanner.Scan()`, or its end. The consumer may    *)
(* break out of the range at an event it is handed.                       *)
ParseFileScan ==
    /\ call.fn = "ParseFile" /\ call.pc = "scan"
    /\ IF call.pos = Len(call.src)
       THEN call' = [call EXCEPT !.pc = "return", !.ret = "end"]
       ELSE LET i == call.pos + 1
                line == call.src[i]
                next == [call EXCEPT !.pos = i]
            IN IF call.cancelled
               THEN call' = [next EXCEPT !.pc = "return", !.ret = "ctx"]
               ELSE IF line[1] = "bad"
               THEN call' = IF call.stopOnError
                            THEN [next EXCEPT !.pc = "return", !.ret = "error"]
                            ELSE next
               ELSE IF line[1] = "skip"
               THEN call' = next
               ELSE IF call.since # ZeroTime /\ Before(line[2], call.since)
               THEN call' = next
               ELSE IF call.until # ZeroTime /\ After(line[2], call.until)
               THEN call' = [next EXCEPT !.pc = "return", !.ret = "until"]
               ELSE \E more \in BOOLEAN :
                       call' = IF more
                               THEN [next EXCEPT !.yielded = Append(call.yielded, i)]
                               ELSE [next EXCEPT !.yielded = Append(call.yielded, i),
                                                 !.pc = "return", !.ret = "break"]
    /\ UNCHANGED unchangedByCall

(* The context given to ParseFile is cancelled.                           *)
ParseFileCancel ==
    /\ call.fn = "ParseFile" /\ call.pc # "return"
    /\ ~call.cancelled
    /\ call' = [call EXCEPT !.cancelled = TRUE]
    /\ UNCHANGED unchangedByCall

ParseFileNext == ParseFileOpen \/ ParseFileScan \/ ParseFileCancel

ParseFileSpec == ParseFileInit /\ [][ParseFileNext]_vars

(* ====================================================================== *)
(* Properties                                                             *)
(* ====================================================================== *)
(* The lifecycle state of section 3 of the specification, from the flags. *)
State == IF closed THEN "Closed" ELSE IF watching THEN "Watching" ELSE "Created"

RunExited == rpc \in {"none", "done"}

WatchReturns == last' # last /\ last'.op = "Watch"

(* C1: whenever a call to Close has returned, the run goroutine has fully *)
(* exited: doneCh is closed, both output channels are closed and no       *)
(* tailer loop is left (also for a Close concurrent with a waiting one).  *)
C1_CloseReturnsAfterExit ==
    last.op = "Close" =>
        /\ RunExited
        /\ watching => (doneCh = "closed" /\ eventClosed /\ errClosed)
        /\ \A i \in 1..Len(tailers) : tailers[i].tpc = "done"

(* C2: a Watch call on a Watcher that is watching and not closed returns  *)
(* ErrAlreadyWatching and changes nothing: no channel, no goroutine, no   *)
(* watcher state, and the first call's channels and task are untouched.   *)
C2_SecondWatchFails ==
    [][(WatchReturns /\ watching /\ ~closed) =>
          /\ last'.res = ErrAlreadyWatching
          /\ UNCHANGED <<watcherVars, chanVars, runVars, pc>>]_vars

C2_Witness ==
    /\ last.op = "Watch" /\ last.res = ErrAlreadyWatching
    /\ watching /\ ~closed
    /\ doneCh = "open" /\ ~eventClosed /\ ~errClosed
    /\ rpc = "sendEvent"

(* C3: a Watch call on a closed Watcher returns ErrWatcherClosed, also    *)
(* when the Watcher is watching (closed takes precedence) and also while  *)
(* a Close is waiting; it is one step that changes nothing and does not   *)
(* wait for doneCh.                                                       *)
C3_WatchOnClosedFails ==
    [][(WatchReturns /\ closed) =>
          /\ last'.res = ErrWatcherClosed
          /\ UNCHANGED <<watcherVars, chanVars, runVars, pc>>]_vars

C3_Witness ==
    /\ last.op = "Watch" /\ last.res = ErrWatcherClosed
    /\ watching
    /\ doneCh = "open"
    /\ \E p \in Procs : pc[p] = "closeWait"

(* C4: the lifecycle moves only Created -> Watching (by a successful      *)
(* Watch), Created -> Closed and Watching -> Closed; the closed flag and  *)
(* the watching flag are never cleared and nothing starts watching once   *)
(* closed.                                                                *)
C4_LifecycleTransitions ==
    [][/\ closed => closed'
       /\ watching => watching'
       /\ closed => watching' = watching
       /\ State' # State =>
             <<State, State'>> \in {<<"Created", "Watching">>, <<"Created", "Closed">>,
                                   <<"Watching", "Closed">>}
       /\ (State = "Created" /\ State' = "Watching") =>
             (WatchReturns /\ last'.res = "ok")]_vars

C4_Witness ==
    /\ closed /\ watching
    /\ last.op = "Watch" /\ last.res = ErrWatcherClosed
    /\ doneCh = "closed"

(* C5: at most one run goroutine and one pair of output channels is ever  *)
(* created, whatever the order of the Watch and Close calls.              *)
C5_AtMostOneRun ==
    /\ spawned <= 1
    /\ chanPairs <= 1
    /\ (spawned = 1) = watching
    /\ (rpc # "none") = watching

C5_Witness ==
    /\ spawned = 1
    /\ rpc = "done" /\ ~closed /\ hist.fatal # "none"
    /\ last.op = "Watch" /\ last.res = ErrAlreadyWatching

C7_CloseEventuallyReturns ==
    (\E p \in Procs : pc[p] = "closeWait")
        ~> (rpc = "done" /\ doneCh = "closed" /\ \A p \in Procs : pc[p] = "idle")

C7_Witness ==
    /\ \E p \in Procs : pc[p] = "closeWait"
    /\ rpc = "rotWait"
    /\ tailers[t].tpc = "sendLine"

NoLineWritten == \A f \in Files : content[f] = <<>>

C9_StartupLookupFatal ==
    (rpc = "done" /\ hist.fatal = WatchOpFindLatest) =>
        /\ hist.reported = 1
        /\ eventClosed /\ errClosed
        /\ tailers = <<>>
        /\ delivered = <<>>

(* C10: when a fatal condition (startup lookup failure, failure to open   *)
(* the tailer at startup) has ended the run, its error notification was   *)
(* accepted by the error channel, so that a consumer reading until        *)
(* closure sees it, whatever errors were reported before it. Stated for   *)
(* the runs whose context is not cancelled.                               *)
C10_FatalAlwaysNotified ==
    (rpc = "done" /\ hist.fatal # "none" /\ ~ctxDone) => hist.reported >= 1

(* C11: after a rotation the old file is never revisited: no two tailers  *)
(* are ever opened on the same file, and once an event of another file    *)
(* has been delivered no event of the earlier file is delivered again.    *)
C11_OldFileNeverRevisited ==
    /\ \A i, j \in 1..Len(tailers) : i < j => tailers[i].file # tailers[j].file
    /\ \A a, b, c \in 1..Len(delivered) :
          (a < b /\ b < c /\ delivered[a][1] = delivered[c][1])
              => delivered[b][1] = delivered[a][1]

(* The tailer i is the live source of run: not stopped, its loop running, *)
(* its file in the directory and the context not cancelled.               *)
Live(i) ==
    /\ ~ctxDone
    /\ ~tailers[i].stopped
    /\ tailers[i].tpc # "done"
    /\ tailers[i].file \in Range(dir)

(* The lines of the file of tailer i, from its start offset on, whose     *)
(* events pass the filters and were not yet delivered by tailer i.        *)
Missing(i) ==
    {k \in (tailers[i].from + 1)..Len(content[tailers[i].file]) :
        /\ EventPasses(content[tailers[i].file][k])
        /\ <<tailers[i].file, k, i>> \notin Range(delivered)}

(* C12: a tailer opened by a rotation is opened on a file other than the  *)
(* one tailed before, after the old tailer was stopped and its loop has   *)
(* exited, and from offset 0 whatever the replay mode; while it stays the *)
(* live source, every line of the new file (present at the switch or      *)
(* appended later) whose event passes the filters is eventually           *)
(* delivered, in file order.                                              *)
C12_RotationReadsFromStart ==
    /\ [](\A i \in 2..Len(tailers) :
             /\ tailers[i].from = 0
             /\ tailers[i].file # tailers[i - 1].file
             /\ tailers[i - 1].stopped /\ tailers[i - 1].tpc = "done")
    /\ [](\A a, b \in 1..Len(delivered) :
             (a < b /\ delivered[a][3] = delivered[b][3] /\ delivered[a][3] >= 2)
                 => delivered[a][2] < delivered[b][2])
    /\ (Len(tailers) >= 2 /\ Live(t) /\ Missing(t) # {})
           ~> ~(Len(tailers) >= 2 /\ Live(t) /\ Missing(t) # {})

C12_Witness ==
    /\ opts.mode = ReplayLastN
    /\ Len(tailers) = 2
    /\ tailers[2].file = "B" /\ tailers[2].from = 0
    /\ Live(2)
    /\ Len(content["B"]) >= 1
    /\ Missing(2) = {}
    /\ <<"B", 1, 2>> \in Range(delivered)

(* C13: at most one Tailer whose read loop has not exited exists at any   *)
(* moment: every tailer but the last one is stopped with its loop exited  *)
(* (streams closed), and run creates the new tailer of a rotation only    *)
(* once the loop of the old one has exited.                               *)
C13_AtMostOneActiveTailer ==
    /\ Cardinality({i \in 1..Len(tailers) : tailers[i].tpc # "done"}) <= 1
    /\ \A i \in 1..(Len(tailers) - 1) : tailers[i].stopped /\ tailers[i].tpc = "done"
    /\ rpc = "rotOpen" => (tailers[t].stopped /\ tailers[t].tpc = "done")

C13_Witness ==
    /\ Len(tailers) = 2
    /\ rpc = "select"
    /\ tailers[1].tpc = "done" /\ tailers[1].stopped
    /\ tailers[2].tpc = "sendLine"

(* C14: events are delivered in the order their lines were read. Every    *)
(* delivered event is a line of its file that passes the filters, read by *)
(* the replay or by the tailer opened on that file; the events of one     *)
(* source are in file order with no line twice; and the events of the     *)
(* replay precede those of the first tailer, which precede those of the   *)
(* tailer of the next file, and so on (no interleaving across a           *)
(* rotation).                                                             *)
C14_DeliveryOrder ==
    /\ \A a \in 1..Len(delivered) :
          LET e == delivered[a] IN
          /\ e[1] \in Files /\ e[2] \in 1..Len(content[e[1]])
          /\ EventPasses(KindOf(e))
          /\ e[3] \in 0..Len(tailers)
          /\ e[3] > 0 => (tailers[e[3]].file = e[1] /\ e[2] > tailers[e[3]].from
                            /\ e[2] <= tailers[e[3]].off)
    /\ \A a, b \in 1..Len(delivered) :
          a < b =>
             /\ delivered[a][3] <= delivered[b][3]
             /\ delivered[a][3] = delivered[b][3] => delivered[a][2] < delivered[b][2]

C14_Witness ==
    /\ Len(delivered) = 3
    /\ delivered[1] = <<"A", 2, 0>> /\ delivered[2] = <<"A", 3, 0>>
    /\ delivered[3] = <<"B", 1, 2>>
    /\ Len(tailers) = 2

(* Two events of one tailer, in file order, with a rejected line and a    *)
(* filtered line between them.                                            *)
C14_WitnessOneTailer ==
    /\ delivered = <<(<<"A", 1, 1>>), (<<"A", 4, 1>>)>>
    /\ rpc = "done"

(* The events delivered by the replay (source 0), in delivery order.      *)
Replayed == SelectSeq(delivered, LAMBDA e : e[3] = 0)

(* The last n lines of the first len lines of the log file, oldest first, *)
(* reduced to those whose events pass the filters.                        *)
ReplayExpected(len, n) ==
    SelectSeq([i \in 1..Min(n, len) |-> <<loc.logFile, len - Min(n, len) + i, 0>>],
              LAMBDA e : EventPasses(KindOf(e)))

ReadAndGone(i) ==
    {k \in (tailers[i].from + 1)..tailers[i].off :
        /\ tailers[i].cur # k
        /\ loc.pending # <<tailers[i].file, k, i>>}

(* C16: while the context is not cancelled nothing is lost but errors     *)
(* dropped on a full buffer: every line a tailer has read (also the one   *)
(* read just before a rotation) has gone through processLine, so if its   *)
(* event passes the filters the event was delivered; and sendError drops  *)
(* an error only when errCh is full.                                      *)
C16_NothingSilentlyLost ==
    ~ctxDone =>
        /\ \A i \in 1..Len(tailers) : \A k \in ReadAndGone(i) :
              EventPasses(content[tailers[i].file][k])
                  => <<tailers[i].file, k, i>> \in Range(delivered)
        /\ Len(errCh) < watcherErrBuffer =>
              sendError(errCh, WatchError(WatchOpTail), ctxDone)
                  = {Append(errCh, WatchError(WatchOpTail))}

(* run takes the line its tailer offers, or stops or replaces its tailer. *)
RunUsesTailer ==
    \/ Len(tailers') # Len(tailers)
    \/ /\ tailers # <<>>
       /\ \/ tailers'[t].stopped # tailers[t].stopped
          \/ tailers[t].tpc = "sendLine" /\ tailers'[t].tpc = "select"
          \/ Len(tailers'[t].errors) < Len(tailers[t].errors)

(* C17: the event channel is unbuffered. While run is blocked in the      *)
(* event send of processLine and the context is not cancelled, the only   *)
(* step run takes is the hand-over of that event to the consumer; until   *)
(* then it stays in the send with the same locals: it takes no line and   *)
(* no error from its tailer, makes no rotation poll (no tailer stopped or *)
(* opened) and puts no error on the error channel.                        *)
C17_SendBlocksRun ==
    [][(rpc = "sendEvent" /\ ~ctxDone) =>
          \/ /\ delivered' = Append(delivered, loc.pending)
             /\ rpc' = loc.retTo
             /\ errCh' = errCh
             /\ ~RunUsesTailer
          \/ /\ delivered' = delivered
             /\ rpc' = rpc /\ loc' = loc
             /\ Len(errCh') <= Len(errCh)
             /\ ~RunUsesTailer
             /\ UNCHANGED <<eventClosed, errClosed, doneCh>>]_vars

C17_Witness ==
    /\ rpc = "sendEvent" /\ ~ctxDone
    /\ loc.retTo = "select"
    /\ tailers[t].tpc = "sendLine"
    /\ FindLatestLogFile(dir) # loc.currentFile
    /\ delivered = <<>>

(* The errors run can offer to the error channel.                         *)
RunErrors ==
    {WatchError(op) : op \in {WatchOpFindLatest, WatchOpTail, WatchOpReplay,
                              WatchOpRotation}}
    \cup {TailError}
    \cup {ParseError(<<f, k, 0>>) : f \in Files, k \in 1..(watcherErrBuffer + 2)}

(* run is about to call processLine on a line the parser rejects.         *)
NextLineRejected ==
    \/ /\ rpc = "replay" /\ loc.queue # <<>> /\ ~ctxDone
       /\ Parse(KindOf(Head(loc.queue))).err
    \/ /\ rpc = "select" /\ tailers[t].tpc = "sendLine"
       /\ Parse(content[tailers[t].file][tailers[t].cur]).err

(* C18: error reporting never stalls run. In every state sendError has an *)
(* outcome for every error (it does not block), the error channel holds   *)
(* at most watcherErrBuffer = 16 errors, and with all 16 slots taken (and *)
(* the context not cancelled) the only outcome is that the error is       *)
(* dropped; a step of run that processes a rejected line on a full        *)
(* channel leaves the channel as it is and goes on to the next line.      *)
C18_ErrorsNeverStall ==
    /\ [](Len(errCh) <= watcherErrBuffer)
    /\ [](\A e \in RunErrors : sendError(errCh, e, ctxDone) # {})
    /\ [](Len(errCh) = watcherErrBuffer =>
             \A e \in RunErrors : sendError(errCh, e, ctxDone) = {errCh})
    /\ [][(NextLineRejected /\ Len(errCh) = watcherErrBuffer
              /\ (rpc' # rpc \/ loc' # loc \/ tailers' # tailers))
             => \/ /\ rpc = "replay" /\ rpc' = "replay"
                   /\ loc' = [loc EXCEPT !.queue = Tail(loc.queue)]
                   /\ errCh' = errCh /\ delivered' = delivered
                \/ /\ rpc = "select" /\ rpc' \in {"select", "exitStop", "rotWait"}
                   /\ errCh' = errCh /\ delivered' = delivered]_vars

C18_Witness ==
    /\ ~ctxDone
    /\ Len(errCh) = watcherErrBuffer
    /\ errCh[1].line = 1 /\ errCh[watcherErrBuffer].line = watcherErrBuffer
    /\ delivered = <<(<<"A", watcherErrBuffer + 2, 0>>)>>

(* run receives a line from t.Lines() in its select.                      *)
LineTaken ==
    /\ rpc = "select"
    /\ tailers # <<>>
    /\ tailers[t].tpc = "sendLine"
    /\ tailers'[t].tpc = "select"

(* C19: once run has taken a ctx.Done case (in its select, in the loop of *)
(* replayLastN, or in the event send of processLine, which it aborts), it *)
(* takes no further line from its tailer, starts no further event send    *)
(* and delivers no further event.                                         *)
C19_NothingAfterCancelObserved ==
    [][hist.observed =>
          /\ ~LineTaken
          /\ (rpc' = "sendEvent" => rpc = "sendEvent")
          /\ delivered' = delivered]_vars

(* FindLatestLogFile fails on the rotation tick run takes next.           *)
LookupFails == rpc = "select" /\ FindLatestLogFile(dir) = ""

(* A WatchError with Op=rotation is put on the error channel.             *)
RotationErrorSent ==
    /\ Len(errCh') = Len(errCh) + 1
    /\ errCh'[Len(errCh')] = WatchError(WatchOpRotation)

C21_ReplayFailureNotFatal ==
    /\ [][(rpc = "replayRead" /\ ReplayReadFails /\ rpc' # rpc) =>
             /\ opts.mode = ReplayLastN /\ opts.n > 0
             /\ rpc' = "openTailer"
             /\ errCh' \in sendError(errCh, WatchError(WatchOpReplay), ctxDone)
             /\ ~ctxDone => errCh' = Append(errCh, WatchError(WatchOpReplay))
             /\ UNCHANGED <<eventClosed, errClosed, doneCh, delivered, tailers>>]_vars
    /\ [][(rpc = "openTailer" /\ hist.replay = "failed" /\ rpc' # rpc
              /\ loc.logFile \in Range(dir)) =>
             /\ rpc' = "select"
             /\ Len(tailers') = 1
             /\ tailers'[1].file = loc.logFile
             /\ tailers'[1].from = Len(content[loc.logFile])
             /\ ~eventClosed' /\ ~errClosed' /\ doneCh' = "open"]_vars
    /\ [](hist.replay = "failed" => Replayed = <<>> /\ hist.fatal \in {"none", WatchOpTail})
    /\ []((hist.replay = "failed" /\ rpc \in {"openTailer", "select", "sendEvent"})
             => (~eventClosed /\ ~errClosed /\ doneCh = "open"))

C21_Witness ==
    /\ hist.replay = "failed" /\ ~ctxDone
    /\ errCh = <<WatchError(WatchOpReplay)>>
    /\ tailers # <<>> /\ tailers[1].from = 2
    /\ delivered = <<(<<"A", 3, 1>>)>>
    /\ rpc = "select"
    /\ ~eventClosed /\ ~errClosed

(* The lines of text the file of the call holds: the lines written to it, *)
(* each without its trailing CR, the empty ones left out (extractLines    *)
(* skips them on purpose).                                                *)
SrcLines == SelectSeq([i \in 1..Len(call.src) |-> StripCR(call.src[i])],
                      LAMBDA l : l # <<>>)

(* C22: when readLastNLines returns for an n with 0 < n <= number of      *)
(* lines of the file, its result is exactly the last n lines of the file, *)
(* oldest first, each byte-identical to the line written apart from a     *)
(* stripped trailing CR.                                                  *)
C22_LastNLinesExact ==
    (call.fn = "readLastNLines" /\ call.pc = "return"
        /\ 0 < call.n /\ call.n <= Len(SrcLines))
        => (~call.err /\ call.ret = KeepLast(SrcLines, call.n))

(* The number of lines of the file of the call as a text file has them:   *)
(* one per LF, and one more for text after the last LF.                   *)
TotalLines ==
    Cardinality({i \in 1..Len(call.file) : call.file[i] = LF})
    + (IF Len(call.file) > 0 /\ call.file[Len(call.file)] # LF THEN 1 ELSE 0)

C24_SinceTimeFilter ==
    /\ [](opts.mode = ReplaySinceTime =>
             /\ \A i \in 1..Len(tailers) : tailers[i].from = 0
             /\ \A a \in 1..Len(delivered) :
                   LET r == Parse(KindOf(delivered[a])) IN
                   /\ r.ev /\ ~r.before
                   /\ Allows(opts.inc, opts.exc, r.type)
             /\ \A a, b \in 1..Len(delivered) :
                   (a < b /\ delivered[a][3] = delivered[b][3])
                       => delivered[a][2] < delivered[b][2])
    /\ (opts.mode = ReplaySinceTime /\ tailers # <<>> /\ Live(t) /\ Missing(t) # {})
           ~> ~(tailers # <<>> /\ Live(t) /\ Missing(t) # {})

C24_Witness ==
    /\ opts.mode = ReplaySinceTime /\ opts.exc = {"player_left"}
    /\ content["A"] = <<"old", "join">>
    /\ content["B"] = <<"old">>
    /\ Len(tailers) = 2 /\ tailers[2].file = "B" /\ tailers[2].off = 1
    /\ tailers[2].tpc = "select" /\ rpc = "select"
    /\ delivered = <<(<<"A", 2, 1>>)>>

(* parser.Parse returns (nil, nil) for a line of kind k.                  *)
Unrecognized(k) == ~Parse(k).ev /\ ~Parse(k).err

(* run calls processLine on a line the parser does not recognize: the     *)
(* line its tailer hands over, or the next line of the replay.            *)
UnrecognizedProcessed ==
    \/ /\ LineTaken
       /\ Unrecognized(content[tailers[t].file][tailers[t].cur])
    \/ /\ rpc = "replay" /\ loc.queue # <<>> /\ ~ctxDone
       /\ Unrecognized(KindOf(Head(loc.queue)))
       /\ loc'.queue = Tail(loc.queue)

(* The lines of its file tailer i has read whose events pass the filters. *)
PassingRead(i) ==
    SelectSeq([k \in 1..(tailers[i].off - tailers[i].from) |->
                  <<tailers[i].file, tailers[i].from + k, i>>],
              LAMBDA e : EventPasses(KindOf(e)))

(* C25: a line for which the parser returns (nil, nil) produces neither   *)
(* an event nor an error: the step of run that processes it leaves the    *)
(* error channel and the delivered events as they are and returns to the  *)
(* loop it came from; no delivered event is such a line; the error        *)
(* channel holds a ParseError only if some line is malformed; and once    *)
(* the first tailer has handed over every line of the file (no            *)
(* cancellation, no rotation) the events delivered are exactly the        *)
(* recognized lines that pass the filters, in order, whatever number of   *)
(* unrecognized lines lies between them.                                  *)
C25_UnrecognizedLineSilent ==
    /\ [][UnrecognizedProcessed =>
             /\ errCh' = errCh
             /\ delivered' = delivered
             /\ rpc' = rpc]_vars
    /\ [](\A a \in 1..Len(delivered) : ~Unrecognized(KindOf(delivered[a])))
    /\ []((\A f \in Files : \A k \in 1..Len(content[f]) : ~Parse(content[f][k]).err)
             => \A a \in 1..Len(errCh) : errCh[a].tag # ParseErrorTag)
    /\ []((Len(tailers) = 1 /\ ~ctxDone /\ rpc = "select" /\ tailers[1].tpc = "select"
              /\ tailers[1].off = Len(content[tailers[1].file]))
             => SelectSeq(delivered, LAMBDA e : e[3] = 1) = PassingRead(1))

C25_Witness ==
    /\ content["A"] = <<"join", "skip", "skip", "left">>
    /\ rpc = "select" /\ tailers[1].tpc = "select" /\ tailers[1].off = 4
    /\ delivered = <<(<<"A", 1, 1>>), (<<"A", 4, 1>>)>>
    /\ errCh = <<>> /\ ~errClosed

(* C26: the compiled type filter allows an event type t iff (the include  *)
(* slice is empty or contains t) and the exclude slice does not contain   *)
(* t: exclude wins when t is in both, and the nil filter compiled from    *)
(* two empty slices allows every type.                                    *)
C26_FilterAllows ==
    (call.fn = "Allows" /\ call.pc = "return") =>
        /\ call.ret = (/\ (call.include = <<>> \/ \E i \in 1..Len(call.include) :
                                                      call.include[i] = call.t)
                       /\ \A i \in 1..Len(call.exclude) : call.exclude[i] # call.t)
        /\ call.filter.nil = (call.include = <<>> /\ call.exclude = <<>>)
        /\ call.filter.nil => call.ret

C26_Witness ==
    /\ call.fn = "Allows" /\ call.pc = "return"
    /\ call.include = <<"player_left", "player_join">>
    /\ call.exclude = <<"player_join">>
    /\ call.t = "player_join"
    /\ ~call.filter.nil
    /\ call.ret = FALSE

(* The error NewWatcher returned is one of Validate (not that of the      *)
(* directory lookup).                                                     *)
ValidationError == call.err \notin {"nil", ErrLogDirNotFound}

(* The effective ceiling of LastN: MaxReplayLines, or 10000 when it is 0. *)
Ceiling(o) == IF o.MaxReplayLines = 0 THEN 10000 ELSE o.MaxReplayLines

(* The replay part of the options is invalid.                             *)
ReplayInvalid(o) ==
    \/ o.Mode = ReplayLastN /\ o.LastN < 0
    \/ o.Mode = ReplayLastN /\ Ceiling(o) > 0 /\ o.LastN > Ceiling(o)
    \/ o.Mode = ReplaySinceTime /\ o.SinceIsZero

(* No Watcher and no background task exists.                              *)
NothingCreated ==
    /\ ~call.w
    /\ spawned = 0 /\ chanPairs = 0 /\ rpc = "none"
    /\ ~watching /\ doneCh = "nil"

(* C27: Validate returns an error exactly when Mode=LastN and LastN<0, or *)
(* Mode=LastN and the effective ceiling is positive and LastN exceeds it, *)
(* or Mode=SinceTime and Since is zero, or PollInterval<0; the zero-value *)
(* options are valid; and when Validate returns an error, NewWatcher      *)
(* returns it with no Watcher, and no background task is ever started.    *)
C27_ValidateExact ==
    call.fn = "NewWatcher" =>
        /\ call.pc = "return" =>
              /\ ValidationError = (ReplayInvalid(call.opts) \/ call.opts.PollInterval < 0)
              /\ call.opts = ZeroOptions => ~ValidationError
              /\ ValidationError => NothingCreated
              /\ call.w = (call.err = "nil")
        /\ (ReplayInvalid(call.opts) \/ call.opts.PollInterval < 0) => NothingCreated

C27_Witness ==
    /\ call.fn = "NewWatcher" /\ call.pc = "return"
    /\ call.opts.Mode = ReplayLastN /\ call.opts.MaxReplayLines = 0
    /\ call.opts.LastN = DefaultMaxReplayLastN + 1
    /\ call.opts.PollInterval = 0
    /\ call.err = "replay LastN exceeds maximum"
    /\ NothingCreated

(* C28 as stated: NewWatcher returns a configuration error for every      *)
(* PollInterval <= 0.                                                     *)
C28_NonPositivePollRejected ==
    (call.fn = "NewWatcher" /\ call.pc = "return" /\ call.opts.PollInterval <= 0)
        => ValidationError

(* C28: a negative poll interval is invalid and is rejected at            *)
(* configuration time: NewWatcher returns a configuration error for every *)
(* PollInterval < 0 and nothing is created; a PollInterval of 0 is valid  *)
(* (no error comes from it) and run then gives its ticker the default of  *)
(* 2 seconds, so the ticker of a Watcher always has a positive interval.  *)
C28_NegativePollRejected ==
    (call.fn = "NewWatcher" /\ call.pc = "return") =>
        /\ call.opts.PollInterval < 0 => (ValidationError /\ NothingCreated)
        /\ (call.opts.PollInterval = 0 /\ ~ReplayInvalid(call.opts)) => ~ValidationError
        /\ call.w =>
              /\ pollInterval(call.opts) > 0
              /\ call.opts.PollInterval = 0 => pollInterval(call.opts) = DefaultPollInterval
              /\ call.opts.PollInterval > 0 => pollInterval(call.opts) = call.opts.PollInterval

C28_Witness ==
    /\ call.fn = "NewWatcher" /\ call.pc = "return"
    /\ call.opts = ZeroOptions
    /\ call.w /\ call.err = "nil"
    /\ watching /\ spawned = 1
    /\ pollInterval(call.opts) = 2

(* C29: every call of Tailer.Stop, the first one and every later one,     *)
(* sequential or concurrent, returns nil and only once the read loop has  *)
(* exited and closed the Lines and Errors streams; the tailer is then     *)
(* marked stopped with its context cancelled.                             *)
C29_StopReturnsAfterExit ==
    last.op = "Stop" =>
        /\ last.res = "nil"
        /\ tailers[1].stopped /\ tailers[1].cancelled
        /\ tailers[1].tpc = "done"

(* The line run hands to processLine in this step, NoLine if none.        *)
LineProcessed ==
    IF LineTaken THEN <<tailers[t].file, tailers[t].cur, t>>
    ELSE IF rpc = "replay" /\ loc.queue # <<>> /\ ~ctxDone /\ loc'.queue = Tail(loc.queue)
    THEN Head(loc.queue)
    ELSE NoLine

(* C30: when the parser returns an error for the line run processes, run  *)
(* offers a ParseError carrying that line to the error channel through    *)
(* sendError (accepted when a slot is free and the context is not         *)
(* cancelled), delivers nothing, and stays in the loop it was in, with    *)
(* both channels open, ready for the next line; no delivered event is a   *)
(* malformed line, and every ParseError on the channel names a malformed  *)
(* line.                                                                  *)
C30_ParseErrorReported ==
    /\ [][(LineProcessed # NoLine /\ Parse(KindOf(LineProcessed)).err) =>
             /\ errCh' \in sendError(errCh, ParseError(LineProcessed), ctxDone)
             /\ (~ctxDone /\ Len(errCh) < watcherErrBuffer)
                   => errCh' = Append(errCh, ParseError(LineProcessed))
             /\ delivered' = delivered
             /\ rpc' = rpc
             /\ loc'.pending = NoLine
             /\ UNCHANGED <<eventClosed, errClosed, doneCh>>]_vars
    /\ [](\A a \in 1..Len(delivered) : ~Parse(KindOf(delivered[a])).err)
    /\ [](\A a \in 1..Len(errCh) :
             errCh[a].tag = ParseErrorTag
                 => /\ errCh[a].file \in Files
                    /\ errCh[a].line \in 1..Len(content[errCh[a].file])
                    /\ Parse(content[errCh[a].file][errCh[a].line]).err)

C30_Witness ==
    /\ content["A"] = <<"join", "bad", "left", "join">>
    /\ errCh = <<ParseError(<<"A", 2, 1>>)>>
    /\ delivered = <<(<<"A", 1, 1>>), (<<"A", 4, 1>>)>>
    /\ rpc = "select" /\ ~ctxDone
    /\ ~eventClosed /\ ~errClosed

(* A step of run out of its select that is neither a line, an error nor a *)
(* rotation, taken while the streams of its tailer are closed.            *)
StreamClosedObserved ==
    /\ rpc = "select"
    /\ tailers[t].tpc = "done"
    /\ rpc' # rpc
    /\ loc' = loc

(* C31: when run observes in its select that a stream of its tailer is    *)
(* closed it leaves the loop for its deferred calls, sending nothing; and *)
(* from there the error channel, the event channel and doneCh are         *)
(* eventually closed and run has exited, with no cancellation and no call *)
(* to Close required.                                                     *)
C31_StreamClosedEndsRun ==
    /\ [][StreamClosedObserved =>
             /\ rpc' = "exitStop"
             /\ UNCHANGED <<chanVars, doneCh, tailers, delivered>>]_vars
    /\ (rpc = "exitStop" /\ tailers[t].tpc = "done")
           ~> (rpc = "done" /\ eventClosed /\ errClosed /\ doneCh = "closed")

C31_Witness ==
    /\ rpc = "done" /\ eventClosed /\ errClosed /\ doneCh = "closed"
    /\ ~ctxDone /\ ~closed
    /\ hist.fatal = "none" /\ ~hist.observed
    /\ Len(tailers) = 1 /\ tailers[t].tpc = "done"
    /\ budget.die < MaxDie

(* The step of run that opens its first tailer.                           *)
FirstTailerOpened == tailers = <<>> /\ tailers' # <<>>

(* Tailer 1 was opened at the start of its file and lines it has not      *)
(* delivered yet pass the filters.                                        *)
FirstTailerOwes ==
    /\ opts.mode \in {ReplayFromStart, ReplaySinceTime}
    /\ Len(tailers) = 1 /\ Live(1) /\ Missing(1) # {}

(* C32: the first tailer is opened on the file found at startup, at       *)
(* offset 0 in the modes ReplayFromStart and ReplaySinceTime and at the   *)
(* end of the file in the modes ReplayNone and ReplayLastN (n = 0         *)
(* included); a tailer delivers only lines after its start offset, so in  *)
(* the latter modes no line present when it was opened comes from it; and *)
(* in the former, while it stays the live source, every line of the file  *)
(* whose event passes the filters is eventually delivered.                *)
C32_InitialTailerPosition ==
    /\ [][FirstTailerOpened =>
             /\ tailers'[1].file = loc.logFile
             /\ tailers'[1].from =
                   IF opts.mode \in {ReplayFromStart, ReplaySinceTime} THEN 0
                   ELSE Len(content[loc.logFile])]_vars
    /\ [](\A a \in 1..Len(delivered) :
             delivered[a][3] = 1 => delivered[a][2] > tailers[1].from)
    /\ FirstTailerOwes ~> ~FirstTailerOwes

C32_Witness ==
    /\ opts.mode = ReplayLastN /\ opts.n = 0
    /\ content["A"] = <<"left", "join">>
    /\ Len(tailers) = 1 /\ tailers[1].from = 1
    /\ delivered = <<(<<"A", 2, 1>>)>>

C32_WitnessFromStart ==
    /\ opts.mode = ReplayFromStart /\ opts.exc = {}
    /\ Len(tailers) = 1 /\ tailers[1].from = 0 /\ Live(1)
    /\ delivered = <<(<<"A", 1, 1>>), (<<"A", 4, 1>>)>>

(* A step in which the tail library hands a read error to the loop of     *)
(* the tailer.                                                            *)
ReadErrorArrives == budget'.ioErr < budget.ioErr

TailerOwes == Live(1) /\ Missing(1) # {}

(* C33: t.errors holds at most tailerErrBuffer = 16 errors; a read error  *)
(* handed to the loop is queued when a slot is free, and dropped, leaving *)
(* the tailer as it was, when all 16 slots are taken (unless the          *)
(* cancelled context ends the loop); in each case the loop is back in its *)
(* select or has ended, never waiting on the error stream, and the line   *)
(* stream is untouched; and while the tailer stays live every line of the *)
(* file not yet delivered is eventually delivered, whatever happens to    *)
(* the error stream.                                                      *)
C33_TailerErrorsNeverBlock ==
    /\ [](\A i \in 1..Len(tailers) : Len(tailers[i].errors) <= tailerErrBuffer)
    /\ [][ReadErrorArrives =>
             /\ tailers'[1].tpc \in {"select", "done"}
             /\ tailers'[1].tpc = "done" => tailers[1].cancelled
             /\ tailers'[1].off = tailers[1].off
             /\ delivered' = delivered
             /\ (Len(tailers[1].errors) = tailerErrBuffer /\ ~tailers[1].cancelled)
                   => tailers' = tailers
             /\ (Len(tailers[1].errors) < tailerErrBuffer /\ ~tailers[1].cancelled)
                   => tailers'[1].errors = Append(tailers[1].errors, TailErrTag)]_vars
    /\ TailerOwes ~> ~TailerOwes

C33_Witness ==
    /\ Len(tailers[1].errors) = tailerErrBuffer
    /\ budget.ioErr < MaxIOErr /\ ~budget.errReader
    /\ Live(1)
    /\ delivered = <<(<<"A", 1, 1>>), (<<"A", 2, 1>>)>>
    /\ tailers[1].tpc = "select"

(* The lines of the parsed file whose events have a timestamp in the      *)
(* range: at or after since, before until, a zero bound not filtering.    *)
InTimeRange ==
    SelectSeq([i \in 1..Len(call.src) |-> i],
              LAMBDA i : /\ call.src[i][1] = "event"
                         /\ (call.since = ZeroTime \/ call.since <= call.src[i][2])
                         /\ (call.until = ZeroTime \/ call.src[i][2] < call.until))

(* The iteration over ParseFile has ended without an error and without a  *)
(* break of the consumer.                                                 *)
ParseFileEnded == call.fn = "ParseFile" /\ call.pc = "return" /\ call.ret \in {"end", "until"}

(* C34: an iteration over ParseFile with WithParseTimeRange(since, until) *)
(* that ends without error has yielded exactly the events of the file     *)
(* with since <= timestamp < until, in file order, where a zero bound     *)
(* does not filter.                                                       *)
C34_TimeRangeExact == ParseFileEnded => call.yielded = InTimeRange

NoTailerRunning == \A i \in 1..Len(tailers) : tailers[i].stopped /\ tailers[i].tpc = "done"

(* C35: run shuts down in the order of its deferred calls: the error      *)
(* channel is closed only once every tailer is stopped with its read loop *)
(* exited, the event channel only after the error channel, and doneCh     *)
(* only after both; each close is a step of its own that closes nothing   *)
(* else. So whenever doneCh is closed both output channels are closed and *)
(* no tailer is running.                                                  *)
C35_ShutdownOrder ==
    /\ [](errClosed => NoTailerRunning)
    /\ [](eventClosed => errClosed)
    /\ [](doneCh = "closed" => (eventClosed /\ errClosed /\ NoTailerRunning /\ rpc = "done"))
    /\ [][/\ (errClosed' /\ ~errClosed) => (NoTailerRunning /\ ~eventClosed' /\ doneCh' = doneCh)
          /\ (eventClosed' /\ ~eventClosed) => (errClosed /\ doneCh' = doneCh)
          /\ (doneCh' = "closed" /\ doneCh # "closed") => (eventClosed /\ errClosed)]_vars

C35_Witness ==
    /\ doneCh = "closed" /\ eventClosed /\ errClosed
    /\ Len(tailers) = 2 /\ NoTailerRunning
    /\ hist.observed
    /\ delivered # <<>>

(* C36: one pair of output channels and one doneCh at most are ever made  *)
(* and one run goroutine owns them; run reaches each of its three closes  *)
(* with the channel still open, a closed channel stays closed, nothing is *)
(* queued on the error channel once it is closed and no event is offered  *)
(* or received once the event channel is closed; and when run has exited  *)
(* all three are closed. So each is closed exactly once and no close of a *)
(* closed channel and no send on a closed channel can happen.             *)
C36_ClosedExactlyOnce ==
    /\ [](spawned <= 1 /\ chanPairs <= 1)
    /\ [](rpc = "closeErr" => ~errClosed)
    /\ [](rpc = "closeEvent" => ~eventClosed)
    /\ [](rpc = "closeDone" => doneCh = "open")
    /\ [](rpc = "sendEvent" => ~eventClosed)
    /\ [](rpc = "done" => (errClosed /\ eventClosed /\ doneCh = "closed"))
    /\ [][/\ errClosed => errClosed'
          /\ eventClosed => eventClosed'
          /\ doneCh = "closed" => doneCh' = "closed"
          /\ Len(errCh') > Len(errCh) => (~errClosed /\ ~errClosed')
          /\ delivered' # delivered => (~eventClosed /\ ~eventClosed')]_vars

C36_Witness ==
    /\ rpc = "done" /\ errClosed /\ eventClosed /\ doneCh = "closed"
    /\ closed /\ parentCancelled /\ cancelCalls > 0
    /\ last.op = "Watch" /\ last.res = ErrWatcherClosed
    /\ errCh # <<>> /\ delivered # <<>>

(* The step of run in which the tailer.New of a rotation returns an       *)
(* error.                                                                 *)
RotationOpenFails == rpc = "rotOpen" /\ rpc' # rpc /\ Len(tailers') = Len(tailers)

(* run is in its select with a tailer it has stopped: the tailer.New of   *)
(* a rotation has failed and no switch was completed since.               *)
StoppedTailerInSelect == rpc = "select" /\ tailers # <<>> /\ tailers[t].stopped

(* C37: when the tailer.New of a rotation fails, the old tailer is        *)
(* stopped with its loop exited and stays run's tailer, a WatchError with *)
(* Op=tail is offered to the error channel, currentFile is unchanged,     *)
(* nothing is delivered or closed and run is back in its select. A        *)
(* stopped tailer is never restarted and no line of a stopped tailer is   *)
(* offered or delivered. From that select run only receives the errors    *)
(* left in the old tailer's buffer, takes a tick or leaves the loop; and  *)
(* eventually it has either exited with both channels and doneCh closed   *)
(* or is tailing with a new tailer.                                       *)
C37_RotationOpenFailure ==
    /\ [][RotationOpenFails =>
             /\ tailers[t].stopped /\ tailers[t].tpc = "done"
             /\ tailers' = tailers
             /\ errCh' \in sendError(errCh, WatchError(WatchOpTail), ctxDone)
             /\ loc'.currentFile = loc.currentFile
             /\ rpc' = "select"
             /\ UNCHANGED <<delivered, eventClosed, errClosed, doneCh>>]_vars
    /\ [][\A i \in 1..Len(tailers) :
             (tailers[i].stopped /\ tailers[i].tpc = "done")
                 => (tailers'[i].stopped /\ tailers'[i].tpc = "done")]_vars
    /\ [](\A i \in 1..Len(tailers) :
             tailers[i].stopped => loc.pending[3] # i)
    /\ [][StoppedTailerInSelect =>
             /\ rpc' \in {"select", "exitStop", "rotOpen"}
             /\ delivered' = delivered
             /\ rpc' = "rotOpen" => loc'.newFile # loc.currentFile]_vars
    /\ StoppedTailerInSelect
           ~> \/ rpc = "done" /\ eventClosed /\ errClosed /\ doneCh = "closed"
              \/ rpc = "select" /\ ~tailers[t].stopped

C37_Witness ==
    /\ opts.mode = ReplayLastN /\ content["A"] = <<"left", "join">>
    /\ ~budget.openErr /\ ~ctxDone
    /\ errCh = <<WatchError(WatchOpTail)>>
    /\ Len(tailers) = 2
    /\ tailers[1].file = "A" /\ tailers[1].stopped /\ tailers[1].off = 2
    /\ tailers[2].file = "B" /\ ~tailers[2].stopped
    /\ loc.currentFile = "B" /\ rpc = "select"
    /\ delivered = <<>>

C37_WitnessExit ==
    /\ WatchError(WatchOpTail) \in Range(errCh)
    /\ Len(tailers) = 1 /\ tailers[1].stopped
    /\ loc.currentFile = "A"
    /\ ~ctxDone /\ hist.fatal = "none"
    /\ rpc = "done" /\ eventClosed /\ errClosed /\ doneCh = "closed"

(* An iteration of the loop of readLastNLines.                            *)
ChunkRead == call.pc = "loop" /\ call'.pc = "loop" /\ call' # call

(* C38: readLastNLines terminates. Every iteration of its loop starts     *)
(* with fewer than n lines held and a positive offset, lowers the offset  *)
(* by the size of its read, which is between 1 and chunkSize = 4096       *)
(* bytes, and reads the bytes from the new offset up to the old one, all  *)
(* inside the file; the offset stays between 0 and the file size; the     *)
(* function leaves the loop exactly when n lines are held or the offset   *)
(* is 0; and no call takes infinitely many steps.                         *)
C38_ReadTerminates ==
    /\ [](call.pc = "loop" => (0 <= call.offset /\ call.offset <= call.fileSize
                                 /\ call.fileSize = Len(call.file)))
    /\ [][ChunkRead =>
             /\ Len(call.lines) < call.n /\ call.offset > 0
             /\ call'.readSize \in 1..chunkSize
             /\ call'.offset = call.offset - call'.readSize
             /\ call'.offset >= 0
             /\ call'.offset + call'.readSize <= call.fileSize
             /\ Len(call'.buffer) = Len(call.buffer) + call'.readSize]_vars
    /\ [][(call.pc = "loop" /\ call'.pc = "return") =>
             (Len(call.lines) >= call.n \/ call.offset = 0)]_vars
    /\ [][(call.pc = "loop" /\ (Len(call.lines) >= call.n \/ call.offset = 0)) =>
             call'.pc = "return"]_vars
    /\ <>[][FALSE]_vars

C38_Witness ==
    /\ call.pc = "return"
    /\ call.fileSize = 2 * chunkSize + 3
    /\ call.offset = 0
    /\ call.readSize = 3
    /\ call.n = 4 /\ Len(call.ret) = 3

(* C39: for every file and every n > 0 the slice readLastNLines returns   *)
(* is extractLines applied to the whole content of the file with the same *)
(* n: the positions of the chunk boundaries do not show in the result.    *)
C39_ChunkingInvisible ==
    (call.fn = "readLastNLines" /\ call.pc = "return" /\ call.n > 0)
        => call.ret = extractLines(call.file, call.n)

====
